---- MODULE Spec2Model ----
(***************************************************************************)
(* Model of the physical-memory VFS handlers of client/vfs_handlers/       *)
(* memory.py: the three platform backends (LinuxMemory, WindowsMemory,     *)
(* OSXMemory), their run-list builders and their Seek/Tell/Read contract.  *)
(*                                                                         *)
(* A byte string is a sequence of byte values.  The device holds the byte  *)
(* DevByte(o) at offset o, which is never zero, so that zero fill and      *)
(* device bytes can be told apart in a result.                             *)
(*                                                                         *)
(* Spec       : a handle is opened and then used by Seek, Tell and Read.   *)
(* SpecSeries : the same handle, with the history of the Reads that follow *)
(*              an absolute Seek.                                          *)
(* SpecDecode : the builders alone, on a wider range of driver outputs.    *)
(* SpecStat   : the builders followed by Stat.                             *)
(* SpecWholeFile : the Linux handle beside run-list handles over the map   *)
(*              [(0, S)] of the same device.                               *)
(* SpecDevErr : run-list handles over a device with a failing offset.      *)
(* SpecFault  : the builders on failing devices and inconsistent maps.     *)
(* SpecCalls  : every call of the handle, on devices that end early or     *)
(*              fail at an offset.                                         *)
(* SpecReopen : a second Open after the driver's report changed.           *)
(* SpecPartial: single calls of _PartialRead at every cursor.              *)
(* SpecPaths  : a WindowsMemory and an OSXMemory over the same run list.   *)
(*                                                                         *)
(* The functions of client/client_utils_osx.py (OSXGetRawDevice,           *)
(* GetFileSystems, CFStringToPystring, OSXFindProxies) are modelled beside *)
(* the handles, in the variable util.                                      *)
(*                                                                         *)
(* SpecOSXUtils     : one call of one of these functions on one input.     *)
(* SpecOSXUtilsFair : the same, the function being run to its end.         *)
(***************************************************************************)
EXTENDS Integers, Sequences, FiniteSets, TLC

(***************************************************************************)
(* Bounds of the model.                                                    *)
(***************************************************************************)
\* Windows handles: no run ends beyond this offset, and the runs of one map
\* have at most this many bytes together
MaxAddr == 3
\* Windows handles: largest number of runs of one map
MaxHandleRuns == 2
\* run decoding: largest start of an entry of the driver's run array
MaxStart == 1
\* run decoding: largest length of an entry of the driver's run array
MaxRunLen == 1
\* run decoding: largest number of entries in the driver's run array
MaxRuns == 3
\* largest number of descriptors in the OSX driver's memory map
MaxDescs == 2
\* most Read or relative Seek calls after one absolute Seek
MaxSteps == 2
\* largest file length of the Linux memory device
MaxFileLen == 3

(***************************************************************************)
(* Program constants.                                                      *)
(***************************************************************************)
\* OSXMemory.page_size
page_size == 4096
\* mutant: the allow-list without the maximum memory type
valid_memory_types_Listed == {1, 2, 3, 4, 5, 6, 7, 9, 10, 13}

\* OSXMemory.valid_memory_types
valid_memory_types == {1, 2, 3, 4, 5, 6, 7, 9, 10, 13, 14}
\* struct.calcsize(OSXMemory.format_efimemoryrange), "IIQQQQ", in bytes
EfiRangeSize == 40
\* bytes of one cell of the binary memory map (one "I" field; a "Q" is two)
CellSize == 4

None == "None"

Min(a, b) == IF a <= b THEN a ELSE b
Max(a, b) == IF a >= b THEN a ELSE b

\* the byte the device holds at offset o (1..255, never the fill byte 0)
DevByte(o) == (o % 255) + 1

\* n zero bytes: "\x00" * n
Zeros(n) == [i \in 1..n |-> 0]

(***************************************************************************)
(* WindowsMemory.__init__: decoding of the run array returned by           *)
(* DeviceIoControl.  data = header (cr3, reserved, number_of_runs) and the *)
(* (start, length) entries the buffer holds.                               *)
(***************************************************************************)
\* mutant: a zero-length entry is skipped instead of ending the list
RECURSIVE WinDecode_SkipZero(_, _, _, _, _)
WinDecode_SkipZero(number_of_runs, arr, x, rs, sz) ==
    IF x >= number_of_runs
    THEN [status |-> "ok", runs |-> rs, size |-> sz]
    ELSE IF x + 1 > Len(arr)
    THEN [status |-> "struct.error", runs |-> rs, size |-> sz]
    ELSE IF arr[x + 1][2] = 0
    THEN WinDecode_SkipZero(number_of_runs, arr, x + 1, rs, sz)
    ELSE WinDecode_SkipZero(number_of_runs, arr, x + 1,
                            Append(rs, <<arr[x + 1][1], arr[x + 1][2]>>),
                            arr[x + 1][1] + arr[x + 1][2])

\* mutant: a buffer that ends before the declared count ends the list
RECURSIVE WinDecode_Truncating(_, _, _, _, _)
WinDecode_Truncating(number_of_runs, arr, x, rs, sz) ==
    IF x >= number_of_runs \/ x + 1 > Len(arr)
    THEN [status |-> "ok", runs |-> rs, size |-> sz]
    ELSE IF arr[x + 1][2] = 0
    THEN [status |-> "ok", runs |-> rs, size |-> sz]
    ELSE WinDecode_Truncating(number_of_runs, arr, x + 1,
                              Append(rs, <<arr[x + 1][1], arr[x + 1][2]>>),
                              arr[x + 1][1] + arr[x + 1][2])

RECURSIVE WinDecode(_, _, _, _, _)
WinDecode(number_of_runs, arr, x, rs, sz) ==
    IF x >= number_of_runs
    THEN [status |-> "ok", runs |-> rs, size |-> sz]
    ELSE IF x + 1 > Len(arr)
    THEN [status |-> "struct.error", runs |-> rs, size |-> sz]
    ELSE IF arr[x + 1][2] = 0
    THEN [status |-> "ok", runs |-> rs, size |-> sz]
    ELSE WinDecode(number_of_runs, arr, x + 1,
                   Append(rs, <<arr[x + 1][1], arr[x + 1][2]>>),
                   arr[x + 1][1] + arr[x + 1][2])

(***************************************************************************)
(* OSXMemory._ParseBinaryMemoryMap.  mmap is the binary map as a sequence  *)
(* of 4-byte cells (little endian): a descriptor is type, pad and four     *)
(* 8-byte fields (physical start, virtual start, pages, attribute).        *)
(***************************************************************************)
\* struct "Q" from two cells, low cell first
U64(lo, hi) == lo + hi * 65536 * 65536

\* struct.unpack_from("IIQQQQ", mmap, byteoff): the fields read
UnpackEfiRange(mmap, byteoff) ==
    LET i == (byteoff \div CellSize) + 1
    IN  [seg_type |-> mmap[i],
         start    |-> U64(mmap[i + 2], mmap[i + 3]),
         pages    |-> U64(mmap[i + 6], mmap[i + 7])]

\* mutant: a surviving descriptor is put in front of the runs found so far
RECURSIVE ParseFrom_Prepend(_, _, _, _, _)
ParseFrom_Prepend(mmap, desc_size, num_descriptors, x, result) ==
    IF x >= num_descriptors
    THEN [status |-> "ok", runs |-> result]
    ELSE IF x * desc_size + EfiRangeSize > Len(mmap) * CellSize
    THEN [status |-> "struct.error", runs |-> result]
    ELSE LET d == UnpackEfiRange(mmap, x * desc_size)
         IN  ParseFrom_Prepend(mmap, desc_size, num_descriptors, x + 1,
                 IF d.seg_type \in valid_memory_types
                 THEN <<<<d.start, d.pages * page_size>>>> \o result
                 ELSE result)

RECURSIVE ParseFrom(_, _, _, _, _)
ParseFrom(mmap, desc_size, num_descriptors, x, result) ==
    IF x >= num_descriptors
    THEN [status |-> "ok", runs |-> result]
    ELSE IF x * desc_size + EfiRangeSize > Len(mmap) * CellSize
    THEN [status |-> "struct.error", runs |-> result]
    ELSE LET d == UnpackEfiRange(mmap, x * desc_size)
         IN  ParseFrom(mmap, desc_size, num_descriptors, x + 1,
                       IF d.seg_type \in valid_memory_types
                       THEN Append(result, <<d.start, d.pages * page_size>>)
                       ELSE result)

\* mutant: descriptors are stepped over by the size of the struct instead of
\* the descriptor size the driver reports
ParseBinaryMemoryMap_StructStride(mmap, mmap_size, desc_size) ==
    IF desc_size = 0
    THEN [status |-> "ZeroDivisionError", runs |-> <<>>]
    ELSE ParseFrom(mmap, EfiRangeSize, mmap_size \div desc_size, 0, <<>>)

\* num_descriptors = size / desc_size is an integer division, which raises
\* on a descriptor size of 0
ParseBinaryMemoryMap(mmap, mmap_size, desc_size) ==
    IF desc_size = 0
    THEN [status |-> "ZeroDivisionError", runs |-> <<>>]
    ELSE ParseFrom(mmap, desc_size, mmap_size \div desc_size, 0, <<>>)


(***************************************************************************)
(* The device.  A read of n bytes at offset off returns the bytes the      *)
(* device holds there, cut short at the device's end.                      *)
(***************************************************************************)
DeviceRead(dev_end, off, n) ==
    [i \in 1..Max(0, Min(n, dev_end - off)) |-> DevByte(off + i - 1)]

\* the offset whose device read fails with an I/O error, NoBad if the device
\* has none
VARIABLE dev_bad

NoBad == -1

\* the device read of n bytes at off raises: ReadFile / mem_dev.read fail
\* when the range holds the failing offset
DeviceRaises(off, n) == dev_bad # NoBad /\ off <= dev_bad /\ dev_bad < off + n

(***************************************************************************)
(* WindowsMemory._PartialRead: classifies the cursor against the runs.     *)
(* kind "zero": n zero bytes; kind "dev": a device read of n bytes at the  *)
(* cursor; kind "none": the scan fell through and returned None.           *)
(***************************************************************************)
\* mutant: the zero fill of a gap is not cut at the start of the next run
RECURSIVE WinScan_FillsLength(_, _, _, _, _)
WinScan_FillsLength(rs, i, last_end, off, length) ==
    IF i > Len(rs)
    THEN [kind |-> "none", n |-> 0]
    ELSE LET start      == rs[i][1]
             run_length == rs[i][2]
             end        == start + run_length
         IN  IF last_end <= off /\ off < start
             THEN [kind |-> "zero", n |-> length]
             ELSE IF start <= off /\ off < end
             THEN [kind |-> "dev", n |-> Min(length, end - off)]
             ELSE WinScan_FillsLength(rs, i + 1, end, off, length)

\* mutant: the first byte after a run is not taken as part of the gap
RECURSIVE WinScan_StrictGap(_, _, _, _, _)
WinScan_StrictGap(rs, i, last_end, off, length) ==
    IF i > Len(rs)
    THEN [kind |-> "none", n |-> 0]
    ELSE LET start      == rs[i][1]
             run_length == rs[i][2]
             end        == start + run_length
         IN  IF last_end < off /\ off < start
             THEN [kind |-> "zero", n |-> Min(length, start - off)]
             ELSE IF start <= off /\ off < end
             THEN [kind |-> "dev", n |-> Min(length, end - off)]
             ELSE WinScan_StrictGap(rs, i + 1, end, off, length)

RECURSIVE WinScan(_, _, _, _, _)
WinScan(rs, i, last_end, off, length) ==
    IF i > Len(rs)
    THEN [kind |-> "none", n |-> 0]
    ELSE LET start      == rs[i][1]
             run_length == rs[i][2]
             end        == start + run_length
         IN  IF last_end <= off /\ off < start
             THEN [kind |-> "zero", n |-> Min(length, start - off)]
             ELSE IF start <= off /\ off < end
             THEN [kind |-> "dev", n |-> Min(length, end - off)]
             ELSE WinScan(rs, i + 1, end, off, length)

\* mutant: the device read is not cut at the end of the run
WindowsPartialRead_Unclamped(rs, off, length) ==
    LET p == WinScan(rs, 1, 0, off, length)
    IN  IF p.kind = "dev" THEN [kind |-> "dev", n |-> length] ELSE p

WindowsPartialRead(rs, off, length) == WinScan(rs, 1, 0, off, length)

(***************************************************************************)
(* OSXMemory._PartialRead.                                                 *)
(***************************************************************************)
\* mutant: the device read is not cut at the end of the section
RECURSIVE OSXScan_Unclamped(_, _, _, _, _)
OSXScan_Unclamped(mm, i, last_end, off, length) ==
    IF i > Len(mm)
    THEN [kind |-> "none", n |-> 0]
    ELSE LET section_start  == mm[i][1]
             section_length == mm[i][2]
             section_end    == section_start + section_length
         IN  IF last_end <= off /\ off < section_start
             THEN [kind |-> "zero", n |-> Min(length, section_start - off)]
             ELSE IF section_start <= off /\ off < section_end
             THEN [kind |-> "dev", n |-> length]
             ELSE OSXScan_Unclamped(mm, i + 1, section_end, off, length)

RECURSIVE OSXScan(_, _, _, _, _)
OSXScan(mm, i, last_end, off, length) ==
    IF i > Len(mm)
    THEN [kind |-> "none", n |-> 0]
    ELSE LET section_start  == mm[i][1]
             section_length == mm[i][2]
             section_end    == section_start + section_length
         IN  IF last_end <= off /\ off < section_start
             THEN [kind |-> "zero", n |-> Min(length, section_start - off)]
             ELSE IF section_start <= off /\ off < section_end
             THEN [kind |-> "dev", n |-> Min(length, section_end - off)]
             ELSE OSXScan(mm, i + 1, section_end, off, length)

\* mutant: the zero fill of a gap runs one byte into the following run
OSXPartialRead_GapOvershoot(mm, off, length) ==
    LET p == OSXScan(mm, 1, 0, off, length)
    IN  IF p.kind = "zero" THEN [kind |-> "zero", n |-> Min(length, p.n + 1)]
        ELSE p

\* mutant: a gap is read from the device instead of being zero filled
OSXPartialRead_ReadsGap(mm, off, length) ==
    LET p == OSXScan(mm, 1, 0, off, length)
    IN  IF p.kind = "zero" THEN [kind |-> "dev", n |-> p.n] ELSE p

OSXPartialRead(mm, off, length) == OSXScan(mm, 1, 0, off, length)

\* mutant: a gap yields no bytes instead of zero fill
PartialData_NoFill(p, dev_end, off) ==
    IF p.kind = "dev" THEN DeviceRead(dev_end, off, p.n) ELSE <<>>

\* mutant: a short device read is padded with zero bytes to the length asked
PartialData_Padded(p, dev_end, off) ==
    IF p.kind = "zero" THEN Zeros(p.n)
    ELSE IF p.kind = "dev"
    THEN LET got == DeviceRead(dev_end, off, p.n)
         IN  got \o Zeros(p.n - Len(got))
    ELSE <<>>

\* the bytes a partial read returns, the device read included
PartialData(p, dev_end, off) ==
    IF p.kind = "zero" THEN Zeros(p.n)
    ELSE IF p.kind = "dev" THEN DeviceRead(dev_end, off, p.n)
    ELSE <<>>

(***************************************************************************)
(* WindowsMemory.Read: the loop over partial reads.  reads collects the    *)
(* (offset, length) of every device read issued, iters counts the rounds   *)
(* of the loop.  An error of the device read is not caught: it leaves      *)
(* Read as an exception, with the cursor where the earlier rounds put it.  *)
(***************************************************************************)
\* mutant: Read returns after one partial read instead of looping
WindowsRead_SinglePartial(rs, sz, dev_end, length, off, result, reads) ==
    IF ~(length > 0 /\ off < sz)
    THEN [status |-> "ok", data |-> result, offset |-> off, reads |-> reads,
          iters |-> 0]
    ELSE LET p    == WindowsPartialRead(rs, off, length)
             data == PartialData(p, dev_end, off)
         IN  [status |-> "ok", data |-> result \o data,
              offset |-> off + Len(data),
              reads |-> IF p.kind = "dev" THEN Append(reads, <<off, p.n>>)
                        ELSE reads,
              iters |-> 1]

\* mutant: a failed device read ends the loop and Read returns the bytes it
\* had accumulated
RECURSIVE WindowsRead_KeepsPartial(_, _, _, _, _, _, _)
WindowsRead_KeepsPartial(rs, sz, dev_end, length, off, result, reads) ==
    IF ~(length > 0 /\ off < sz)
    THEN [status |-> "ok", data |-> result, offset |-> off, reads |-> reads,
          iters |-> 0]
    ELSE LET p      == WindowsPartialRead(rs, off, length)
             data   == PartialData(p, dev_end, off)
             issued == IF p.kind = "dev" THEN Append(reads, <<off, p.n>>)
                       ELSE reads
         IN  IF (p.kind = "dev" /\ DeviceRaises(off, p.n)) \/ Len(data) = 0
             THEN [status |-> "ok", data |-> result, offset |-> off,
                   reads |-> issued, iters |-> 1]
             ELSE LET rest == WindowsRead_KeepsPartial(rs, sz, dev_end,
                                  length - Len(data), off + Len(data),
                                  result \o data, issued)
                  IN  [rest EXCEPT !.iters = @ + 1]

\* mutant: a failed device read puts the cursor back where the call began
RECURSIVE WindowsRead_RestoresCursor(_, _, _, _, _, _, _)
WindowsRead_RestoresCursor(rs, sz, dev_end, length, off, result, reads) ==
    IF ~(length > 0 /\ off < sz)
    THEN [status |-> "ok", data |-> result, offset |-> off, reads |-> reads,
          iters |-> 0]
    ELSE LET p      == WindowsPartialRead(rs, off, length)
             data   == PartialData(p, dev_end, off)
             issued == IF p.kind = "dev" THEN Append(reads, <<off, p.n>>)
                       ELSE reads
         IN  IF p.kind = "dev" /\ DeviceRaises(off, p.n)
             THEN [status |-> "IOError", data |-> <<>>,
                   offset |-> off - Len(result), reads |-> issued,
                   iters |-> 1]
             ELSE IF Len(data) = 0
             THEN [status |-> "ok", data |-> result, offset |-> off,
                   reads |-> issued, iters |-> 1]
             ELSE LET rest == WindowsRead_RestoresCursor(rs, sz, dev_end,
                                  length - Len(data), off + Len(data),
                                  result \o data, issued)
                  IN  [rest EXCEPT !.iters = @ + 1]

RECURSIVE WindowsRead(_, _, _, _, _, _, _)
WindowsRead(rs, sz, dev_end, length, off, result, reads) ==
    IF ~(length > 0 /\ off < sz)
    THEN [status |-> "ok", data |-> result, offset |-> off, reads |-> reads,
          iters |-> 0]
    ELSE LET p      == WindowsPartialRead(rs, off, length)
             data   == PartialData(p, dev_end, off)
             issued == IF p.kind = "dev" THEN Append(reads, <<off, p.n>>)
                       ELSE reads
         IN  IF p.kind = "dev" /\ DeviceRaises(off, p.n)
             THEN [status |-> "IOError", data |-> <<>>, offset |-> off,
                   reads |-> issued, iters |-> 1]
             ELSE IF Len(data) = 0
             THEN [status |-> "ok", data |-> result, offset |-> off,
                   reads |-> issued, iters |-> 1]
             ELSE LET rest == WindowsRead(rs, sz, dev_end, length - Len(data),
                                          off + Len(data), result \o data,
                                          issued)
                  IN  [rest EXCEPT !.iters = @ + 1]

(***************************************************************************)
(* OSXMemory.size (a property: the end of the last run; IndexError on an   *)
(* empty map) and OSXMemory.Read.                                          *)
(***************************************************************************)
OSXSizeRaises(mm) == mm = <<>>

OSXSize(mm) == mm[Len(mm)][1] + mm[Len(mm)][2]

\* mutant: the loop goes on while length >= 0, one round more than needed
RECURSIVE OSXRead_LoopOnZero(_, _, _, _, _, _)
OSXRead_LoopOnZero(mm, dev_end, length, off, result, reads) ==
    IF length < 0
    THEN [status |-> "ok", data |-> result, offset |-> off, reads |-> reads,
          iters |-> 0]
    ELSE IF OSXSizeRaises(mm)
    THEN [status |-> "IndexError", data |-> <<>>, offset |-> off,
          reads |-> reads, iters |-> 0]
    ELSE IF ~(off < OSXSize(mm))
    THEN [status |-> "ok", data |-> result, offset |-> off, reads |-> reads,
          iters |-> 0]
    ELSE LET p      == OSXPartialRead(mm, off, length)
             data   == PartialData(p, dev_end, off)
             issued == IF p.kind = "dev" /\ p.n > 0
                       THEN Append(reads, <<off, p.n>>)
                       ELSE reads
         IN  IF Len(data) = 0
             THEN [status |-> "ok", data |-> result, offset |-> off,
                   reads |-> issued, iters |-> 1]
             ELSE LET rest == OSXRead_LoopOnZero(mm, dev_end,
                                  length - Len(data), off + Len(data),
                                  result \o data, issued)
                  IN  [rest EXCEPT !.iters = @ + 1]

\* mutant: a device read that comes back empty is issued a second time
RECURSIVE OSXRead_RetryOnce(_, _, _, _, _, _)
OSXRead_RetryOnce(mm, dev_end, length, off, result, reads) ==
    IF length <= 0
    THEN [status |-> "ok", data |-> result, offset |-> off, reads |-> reads,
          iters |-> 0]
    ELSE IF OSXSizeRaises(mm)
    THEN [status |-> "IndexError", data |-> <<>>, offset |-> off,
          reads |-> reads, iters |-> 0]
    ELSE IF ~(off < OSXSize(mm))
    THEN [status |-> "ok", data |-> result, offset |-> off, reads |-> reads,
          iters |-> 0]
    ELSE LET p      == OSXPartialRead(mm, off, length)
             data   == PartialData(p, dev_end, off)
             issued == IF p.kind = "dev" THEN Append(reads, <<off, p.n>>)
                       ELSE reads
         IN  IF p.kind = "dev" /\ DeviceRaises(off, p.n)
             THEN [status |-> "IOError", data |-> <<>>, offset |-> off,
                   reads |-> issued, iters |-> 1]
             ELSE IF Len(data) = 0
             THEN [status |-> "ok", data |-> result, offset |-> off,
                   reads |-> IF p.kind = "dev"
                             THEN Append(issued, <<off, p.n>>)
                             ELSE issued,
                   iters |-> 1]
             ELSE LET rest == OSXRead_RetryOnce(mm, dev_end,
                                  length - Len(data), off + Len(data),
                                  result \o data, issued)
                  IN  [rest EXCEPT !.iters = @ + 1]

RECURSIVE OSXRead(_, _, _, _, _, _)
OSXRead(mm, dev_end, length, off, result, reads) ==
    IF length <= 0
    THEN [status |-> "ok", data |-> result, offset |-> off, reads |-> reads,
          iters |-> 0]
    ELSE IF OSXSizeRaises(mm)
    THEN [status |-> "IndexError", data |-> <<>>, offset |-> off,
          reads |-> reads, iters |-> 0]
    ELSE IF ~(off < OSXSize(mm))
    THEN [status |-> "ok", data |-> result, offset |-> off, reads |-> reads,
          iters |-> 0]
    ELSE LET p      == OSXPartialRead(mm, off, length)
             data   == PartialData(p, dev_end, off)
             issued == IF p.kind = "dev" THEN Append(reads, <<off, p.n>>)
                       ELSE reads
         IN  IF p.kind = "dev" /\ DeviceRaises(off, p.n)
             THEN [status |-> "IOError", data |-> <<>>, offset |-> off,
                   reads |-> issued, iters |-> 1]
             ELSE IF Len(data) = 0
             THEN [status |-> "ok", data |-> result, offset |-> off,
                   reads |-> issued, iters |-> 1]
             ELSE LET rest == OSXRead(mm, dev_end, length - Len(data),
                                      off + Len(data), result \o data,
                                      issued)
                  IN  [rest EXCEPT !.iters = @ + 1]

(***************************************************************************)
(* LinuxMemory.Read: fd.read(length) on the raw file of file_len bytes.    *)
(***************************************************************************)
\* mutant: a read past the end of the file is padded to the length asked for
LinuxRead_Padded(file_len, pos, length) ==
    LET data == DeviceRead(file_len, pos, length)
    IN  [status |-> "ok", data |-> data \o Zeros(length - Len(data)),
         offset |-> pos + length, reads |-> <<<<pos, length>>>>, iters |-> 0]

\* mutant: the file position moves by the length asked for
LinuxRead_AdvanceByLength(file_len, pos, length) ==
    LET data == DeviceRead(file_len, pos, length)
    IN  [status |-> "ok", data |-> data, offset |-> pos + length,
         reads |-> <<<<pos, length>>>>, iters |-> 0]

LinuxRead(file_len, pos, length) ==
    LET data == DeviceRead(file_len, pos, length)
    IN  [status |-> "ok", data |-> data, offset |-> pos + Len(data),
         reads |-> <<<<pos, length>>>>, iters |-> 0]


(***************************************************************************)
(* State.                                                                  *)
(***************************************************************************)
VARIABLES
    platform,      \* sys.platform: "linux", "windows" or "osx"
    base_fd_attr,  \* what the attribute lookup self.base_fd finds
    drv,           \* what the acquisition driver / raw file reports
    dev_end,       \* the offset at which device reads come back empty
    hstate,        \* "closed", "open" or "failed" (the constructor raised)
    pathspec,      \* self.pathspec, set by MemoryVFS.__init__
    runs,          \* self.runs (Windows) / self.mmap (OSX)
    size,          \* self.size as set by the Linux and Windows constructors
    offset,        \* self.offset, the cursor of the Windows and OSX handles
    fdpos,         \* position of the Linux file object, the Linux cursor (the
                   \* other handles reposition the device before every read)
    last,          \* the last call: its arguments and what it returned
    c0,            \* history: the cursor the last SeriesSeek set
    reqs,          \* history: the lengths of the SeriesReads since then
    acc,           \* history: the bytes those SeriesReads returned
    steps,         \* Reads and relative Seeks since the last absolute Seek
    twin,          \* a run-list handle over the map [(0, S)] of a device of
                   \* S bytes, driven by the calls made on the Linux handle
    prev,          \* the handle instance of an earlier Open, still alive
                   \* beside the current one: its map and what its driver
                   \* had reported
    util           \* the call of a function of client_utils_osx.py under
                   \* way: its arguments, its locals and what it returned

vars == <<platform, base_fd_attr, drv, dev_end, dev_bad, hstate, pathspec,
          runs, size, offset, fdpos, last, c0, reqs, acc, steps, twin,
          prev, util>>

\* what no call on the handle touches
env == <<platform, base_fd_attr, drv, dev_end, dev_bad, util>>

(***************************************************************************)
(* What the environment can be: driver outputs, device ends, arguments.    *)
(***************************************************************************)
\* the device never comes back short
DevFull == 1000000

\* descs: the (type, physical start, pages) triples the OSX driver lays out
\* in its binary map, kept beside the bytes it hands over
\* fault: "open" if the device cannot be opened, "ioctl" if the driver's
\* query fails, "none" otherwise
NoDrv == [number_of_runs |-> 0, arr |-> <<>>, mmap_size |-> 0,
          mmap_desc_size |-> 0, mmap |-> <<>>, descs |-> <<>>,
          file_len |-> 0, fault |-> "none"]

FaultDrv(f) == [NoDrv EXCEPT !.fault = f]

SeqsUpTo(S, n) == UNION {[1..k -> S] : k \in 0..n}

\* Windows: the runs of the scenario of the specification
ScenarioRuns == <<<<0, 100>>, <<200, 50>>>>

WinDrv(count, arr) == [NoDrv EXCEPT !.number_of_runs = count, !.arr = arr]

RECURSIVE SumLengths(_)
SumLengths(a) == IF a = <<>> THEN 0 ELSE Head(a)[2] + SumLengths(Tail(a))

\* run arrays without terminator, in any order, overlapping or not, declared
\* with their true count
WinHandleDrvs ==
    {WinDrv(Len(a), a) :
        a \in {b \in SeqsUpTo({e \in (0..MaxAddr) \X (1..MaxAddr) :
                                    e[1] + e[2] <= MaxAddr}, MaxHandleRuns) :
                 SumLengths(b) <= MaxAddr}}
    \cup {WinDrv(2, ScenarioRuns)}

\* run arrays with zero-length entries, declared with any count
WinDecodeDrvs ==
    {WinDrv(c, a) : c \in (-1)..(MaxRuns + 1),
                    a \in SeqsUpTo((0..MaxStart) \X (0..MaxRunLen), MaxRuns)}

\* OSX: one EfiMemoryRange of desc_size bytes; the fields the parser skips
\* and the padding hold values that would pass for a type or an address
EfiRange(seg_type, start, pages, desc_size) ==
    <<seg_type, 0, start, 0, 77, 0, pages, 0, 15, 0>>
    \o [i \in 1..((desc_size - EfiRangeSize) \div CellSize) |-> 7]

RECURSIVE Concat(_)
Concat(ss) == IF ss = <<>> THEN <<>> ELSE Head(ss) \o Concat(Tail(ss))

OSXDrv(descs, desc_size, tail) ==
    LET cells == Concat([i \in 1..Len(descs) |->
                     EfiRange(descs[i][1], descs[i][2], descs[i][3], desc_size)])
                 \o tail
    IN  [NoDrv EXCEPT !.mmap_size = Len(cells) * CellSize,
                      !.mmap_desc_size = desc_size, !.mmap = cells,
                      !.descs = descs]

\* descriptor sizes the driver reports: the bare struct and the EFI stride
DescSizes == {40, 48}

OSXHandleDrvs ==
    {OSXDrv(d, 48, <<>>) :
        d \in SeqsUpTo({7} \X {0, page_size} \X (0..1), MaxDescs)}
    \cup {OSXDrv(<<<<0, 0, 1>>>>, 48, <<>>),
          OSXDrv(<<<<0, 0, 1>>, <<7, page_size, 1>>>>, 48, <<>>)}

OSXDecodeDrvs ==
    {OSXDrv(d, ds, t) :
        d \in SeqsUpTo(((0..15) \X {0} \X {1})
                         \cup ({7} \X {0, page_size, 2 * page_size} \X (0..2)),
                       MaxDescs),
        ds \in DescSizes,
        t \in {<<>>, <<7, 0, 0>>}}

\* maps laid out at the EFI stride of 48 bytes whose reported descriptor
\* size is 0, shorter than the struct, or the stride; with 0, 12 or 16 bytes
\* after the last descriptor
OSXDimDrvs ==
    {[OSXDrv(d, 48, t) EXCEPT !.mmap_desc_size = r] :
        d \in SeqsUpTo({7} \X {0, page_size} \X {1}, MaxDescs),
        t \in {<<>>, <<7, 0, 0>>, <<7, 0, 0, 0>>},
        r \in {0, 24, 48}}

LinuxDrvs == {[NoDrv EXCEPT !.file_len = n] : n \in 0..MaxFileLen}

\* arguments of Seek and Read
SeekOffsets == {0, 1, 2, 5, 50, 240, 4095, 4096, 8192}
EndOffsets  == {0, 1}
RelOffsets  == {1}
ReadLens    == {0, 1, 2, 50, 100}
SeriesLens  == {0, 1, 2, 100}

\* what the lookup of self.base_fd can find in vfs.VFSHandler, which no
\* constructor of this file sets: a class attribute holding None, or nothing
VFSHandlerBaseFd == {None, "absent"}

\* values a caller passes as base_fd: none, or another VFS handler
BaseFds == {None, "handler"}

\* the pathspecs a caller opens the memory device with
Pathspecs == {"/dev/mem", "/dev/pmem"}

NoCall == [op |-> "none", status |-> "ok", base |-> None, pathspec |-> None,
           arg |-> 0, whence |-> 0, pre |-> 0, data |-> <<>>, reads |-> <<>>,
           iters |-> 0, ret |-> 0, flag |-> FALSE]

\* the twin handles: the cursor and the last result of a WindowsMemory and
\* of an OSXMemory
\* oruns: the map of the OSXMemory; oreads, ostatus: the device reads and
\* the outcome of its last Read
NoTwin == [woffset |-> 0, wdata |-> <<>>, ooffset |-> 0, odata |-> <<>>,
           status |-> "ok", oruns |-> <<>>, oreads |-> <<>>,
           ostatus |-> "ok"]

\* no earlier instance
NoPrev == [alive |-> FALSE, runs |-> <<>>, size |-> 0, drv |-> NoDrv]

\* no call of a function of client_utils_osx.py
NoUtil == [fn |-> "none", pc |-> "none"]

\* no handle constructed yet
HandleClosed ==
    /\ hstate = "closed"
    /\ pathspec = None
    /\ runs = <<>>
    /\ size = 0
    /\ offset = 0
    /\ fdpos = 0
    /\ last = NoCall
    /\ c0 = 0
    /\ reqs = <<>>
    /\ acc = <<>>
    /\ steps = 0
    /\ twin = NoTwin
    /\ prev = NoPrev

HandleInit ==
    /\ util = NoUtil
    /\ HandleClosed

EnvInit(attrs, ends, win, osx) ==
    /\ base_fd_attr \in attrs
    /\ dev_end \in ends
    /\ dev_bad = NoBad
    /\ \/ platform = "linux" /\ drv \in LinuxDrvs
       \/ platform = "windows" /\ drv \in win
       \/ platform = "osx" /\ drv \in osx

Init ==
    /\ EnvInit(VFSHandlerBaseFd, {1, DevFull}, WinHandleDrvs, OSXHandleDrvs)
    /\ HandleInit

InitDecode ==
    /\ EnvInit({None}, {DevFull}, WinDecodeDrvs, OSXDecodeDrvs)
    /\ HandleInit


(***************************************************************************)
(* The cursor and the size as the handle reports them.  LinuxMemory.Tell   *)
(* asks the file object; the Windows and OSX classes inherit Tell, which   *)
(* returns the cursor self.offset, from vfs.VFSHandler.                    *)
(***************************************************************************)
\* mutant: Tell reports the inherited cursor, which LinuxMemory never moves
LinuxTell_Offset == offset

LinuxTell == fdpos

VFSHandlerTell == offset

Cursor == IF platform = "linux" THEN LinuxTell ELSE VFSHandlerTell

SizeRaises == platform = "osx" /\ OSXSizeRaises(runs)

Size == IF platform = "osx" THEN OSXSize(runs) ELSE size

(***************************************************************************)
(* Open: MemoryVFS.Open -> cls(base_fd, pathspec) -> the constructor of    *)
(* the platform's class.                                                   *)
(***************************************************************************)
\* MemoryVFS.__init__ drops its base_fd argument ("_ = base_fd"), so the
\* later test of self.base_fd sees what the class inherits, whatever the
\* caller passed
SelfBaseFd(base_fd) == base_fd_attr

(***************************************************************************)
(* LinuxMemory.__init__ on the raw file: fd.seek(0, 2), self.size =        *)
(* fd.tell(), fd.seek(0).  size is what the constructor stores, pos the    *)
(* file position it leaves.                                                *)
(***************************************************************************)
\* mutant: the file position is left at the end of the file
LinuxOpen_StaysAtEnd(file_len) ==
    LET at_end == file_len + 0
    IN  [size |-> at_end, pos |-> at_end]

LinuxOpen(file_len) ==
    LET at_end == file_len + 0
        told   == at_end
        back   == 0
    IN  [size |-> told, pos |-> back]

\* mutant: the run list and the size belong to the class, and every
\* constructor goes on from what the one before left in them
ConstructOn_SharedList(d) ==
    IF d.fault = "open"
    THEN [status |-> IF platform = "windows" THEN "pywintypes.error"
                     ELSE "IOError",
          runs |-> <<>>, size |-> 0]
    ELSE IF platform = "linux"
    THEN [status |-> "ok", runs |-> <<>>, size |-> LinuxOpen(d.file_len).size]
    ELSE IF d.fault = "ioctl"
    THEN [status |-> IF platform = "windows" THEN "pywintypes.error"
                     ELSE "IOError",
          runs |-> <<>>, size |-> 0]
    ELSE IF platform = "windows"
    THEN WinDecode(d.number_of_runs, d.arr, 0, runs, size)
    ELSE LET r == ParseBinaryMemoryMap(d.mmap, d.mmap_size,
                                       d.mmap_desc_size)
         IN  [status |-> r.status, runs |-> r.runs, size |-> 0]

\* the constructor after the base_fd test, on a device whose driver reports d:
\* open the device, build the map.
\* open(), CreateFile, DeviceIoControl and fcntl.ioctl raise when they fail
\* and nothing catches what they raise
ConstructOn(d) ==
    IF d.fault = "open"
    THEN [status |-> IF platform = "windows" THEN "pywintypes.error"
                     ELSE "IOError",
          runs |-> <<>>, size |-> 0]
    ELSE IF platform = "linux"
    THEN [status |-> "ok", runs |-> <<>>, size |-> LinuxOpen(d.file_len).size]
    ELSE IF d.fault = "ioctl"
    THEN [status |-> IF platform = "windows" THEN "pywintypes.error"
                     ELSE "IOError",
          runs |-> <<>>, size |-> 0]
    ELSE IF platform = "windows"
    THEN WinDecode(d.number_of_runs, d.arr, 0, <<>>, 0)
    ELSE LET r == ParseBinaryMemoryMap(d.mmap, d.mmap_size,
                                       d.mmap_desc_size)
         IN  [status |-> r.status, runs |-> r.runs, size |-> 0]

Construct == ConstructOn(drv)

OpenCall(base_fd, component) ==
    /\ hstate = "closed"
    /\ LET seen == SelfBaseFd(base_fd)
           r    == IF seen = "absent"
                   THEN [status |-> "AttributeError", runs |-> <<>>, size |-> 0]
                   ELSE IF seen # None
                   THEN [status |-> "IOError", runs |-> <<>>, size |-> 0]
                   ELSE Construct
       IN  /\ hstate' = IF r.status = "ok" THEN "open" ELSE "failed"
           /\ pathspec' = IF r.status = "ok" THEN component ELSE None
           /\ runs' = IF r.status = "ok" THEN r.runs ELSE <<>>
           /\ size' = IF r.status = "ok" THEN r.size ELSE 0
           /\ last' = [NoCall EXCEPT !.op = "Open", !.status = r.status,
                                     !.base = base_fd,
                                     !.pathspec = component]
           /\ fdpos' = IF r.status = "ok" /\ platform = "linux"
                       THEN LinuxOpen(drv.file_len).pos
                       ELSE fdpos
    /\ UNCHANGED <<env, offset, c0, reqs, acc, steps, prev>>

Open(base_fd, component) == OpenCall(base_fd, component) /\ UNCHANGED twin

(***************************************************************************)
(* A second Open while the first handle is alive: the driver reports d     *)
(* now, and the constructor builds a new instance beside the first one.    *)
(* A constructor that raises leaves the first handle the only one, and drv *)
(* stays the report that handle was built from.                            *)
(***************************************************************************)
Reopen(base_fd, component, d) ==
    /\ hstate = "open"
    /\ ~prev.alive
    /\ LET seen == SelfBaseFd(base_fd)
           r    == IF seen = "absent"
                   THEN [status |-> "AttributeError", runs |-> <<>>, size |-> 0]
                   ELSE IF seen # None
                   THEN [status |-> "IOError", runs |-> <<>>, size |-> 0]
                   ELSE ConstructOn(d)
           ok   == r.status = "ok"
       IN  /\ drv' = IF ok THEN d ELSE drv
           /\ prev' = IF ok
                      THEN [alive |-> TRUE, runs |-> runs, size |-> size,
                            drv |-> drv]
                      ELSE prev
           /\ pathspec' = IF ok THEN component ELSE pathspec
           /\ runs' = IF ok THEN r.runs ELSE runs
           /\ size' = IF ok THEN r.size ELSE size
           /\ offset' = IF ok THEN 0 ELSE offset
           /\ fdpos' = IF ~ok THEN fdpos
                       ELSE IF platform = "linux" THEN LinuxOpen(d.file_len).pos
                       ELSE 0
           /\ steps' = IF ok THEN 0 ELSE steps
           /\ last' = [NoCall EXCEPT !.op = "Open", !.status = r.status,
                                     !.base = base_fd,
                                     !.pathspec = component]
    /\ UNCHANGED <<platform, base_fd_attr, dev_end, dev_bad, hstate, c0, reqs,
                   acc, twin, util>>

(***************************************************************************)
(* Seek and Tell.  LinuxMemory.Seek forwards to the file object; the       *)
(* Windows and OSX classes inherit Seek from vfs.VFSHandler: it sets the   *)
(* cursor to an absolute, relative or end-relative position and validates  *)
(* nothing.                                                                *)
(***************************************************************************)
\* mutant: a seek is cut at the end of the file
SeekTarget_Clamped(cur, end, off, whence) ==
    IF whence = 0 THEN Min(off, end)
    ELSE IF whence = 1 THEN Min(cur + off, end)
    ELSE end

\* fd.seek(offset, whence): the position it leads to
SeekTarget(cur, end, off, whence) ==
    IF whence = 0 THEN off
    ELSE IF whence = 1 THEN cur + off
    ELSE end + off

\* the inherited Seek: the cursor it sets
VFSHandlerSeekTarget(cur, end, off, whence) ==
    IF whence = 0 THEN off
    ELSE IF whence = 1 THEN cur + off
    ELSE end + off

SeekCall(off, whence) ==
    /\ hstate = "open"
    /\ whence = 1 => steps < MaxSteps
    /\ LET raises == whence = 2 /\ SizeRaises
           target == IF platform = "linux"
                     THEN SeekTarget(fdpos, drv.file_len, off, whence)
                     ELSE IF raises THEN offset
                     ELSE VFSHandlerSeekTarget(offset, Size, off, whence)
       IN  /\ fdpos' = IF platform = "linux" THEN target ELSE fdpos
           /\ offset' = IF platform = "linux" THEN offset ELSE target
           /\ last' = [NoCall EXCEPT !.op = "Seek",
                          !.status = IF raises THEN "IndexError" ELSE "ok",
                          !.arg = off, !.whence = whence]
    /\ steps' = IF whence = 1 THEN steps + 1
                 ELSE IF whence = 2 /\ SizeRaises THEN steps
                 ELSE 0
    /\ UNCHANGED <<env, hstate, pathspec, runs, size>>

Seek(off, whence) ==
    SeekCall(off, whence) /\ UNCHANGED <<c0, reqs, acc, twin, prev>>

\* an absolute Seek that opens a series of Reads whose history is recorded
SeriesSeek(off) ==
    /\ SeekCall(off, 0)
    /\ c0' = off
    /\ reqs' = <<>>
    /\ acc' = <<>>
    /\ twin' = twin
    /\ prev' = prev

Tell ==
    /\ hstate = "open"
    /\ last.op # "Tell"
    /\ last' = [NoCall EXCEPT !.op = "Tell", !.pre = Cursor, !.ret = Cursor]
    /\ UNCHANGED <<env, hstate, pathspec, runs, size, offset, fdpos, c0,
                   reqs, acc, steps, twin, prev>>

(***************************************************************************)
(* MemoryVFS.Stat: a StatResponse with st_size = self.size and the         *)
(* handle's pathspec merged in.  self.size is an attribute on the Linux    *)
(* and Windows handles and a property on the OSX handle.                   *)
(***************************************************************************)
Stat ==
    /\ hstate = "open"
    /\ last.op # "Stat"
    /\ last' = IF SizeRaises
               THEN [NoCall EXCEPT !.op = "Stat", !.status = "IndexError"]
               ELSE [NoCall EXCEPT !.op = "Stat", !.ret = Size,
                                   !.pathspec = pathspec]
    /\ UNCHANGED <<env, hstate, pathspec, runs, size, offset, fdpos, c0,
                   reqs, acc, steps, twin, prev>>

(***************************************************************************)
(* MemoryVFS.IsDirectory: always False.                                    *)
(***************************************************************************)
IsDirectory ==
    /\ hstate = "open"
    /\ last.op # "IsDirectory"
    /\ last' = [NoCall EXCEPT !.op = "IsDirectory", !.flag = FALSE]
    /\ UNCHANGED <<env, hstate, pathspec, runs, size, offset, fdpos, c0,
                   reqs, acc, steps, twin, prev>>

(***************************************************************************)
(* Read.                                                                   *)
(***************************************************************************)
\* what Read(length) at cursor cur returns on the handle as it is
ReadResult(cur, length) ==
    IF platform = "linux" THEN LinuxRead(drv.file_len, cur, length)
    ELSE IF platform = "windows"
    THEN WindowsRead(runs, size, dev_end, length, cur, <<>>, <<>>)
    ELSE OSXRead(runs, dev_end, length, cur, <<>>, <<>>)

\* mutant: a Read that fails cuts the map down to what it has read
ReadCall_Truncating(length) ==
    /\ hstate = "open"
    /\ steps < MaxSteps
    /\ LET r == ReadResult(Cursor, length)
       IN  /\ fdpos' = IF platform = "linux" THEN r.offset ELSE fdpos
           /\ offset' = IF platform = "linux" THEN offset ELSE r.offset
           /\ last' = [NoCall EXCEPT !.op = "Read", !.status = r.status,
                          !.arg = length, !.pre = Cursor, !.data = r.data,
                          !.reads = r.reads, !.iters = r.iters]
           /\ size' = IF r.status = "ok" THEN size ELSE r.offset
           /\ runs' = IF r.status = "ok" THEN runs ELSE <<>>
    /\ steps' = steps + 1
    /\ UNCHANGED <<env, hstate, pathspec>>

ReadCall(length) ==
    /\ hstate = "open"
    /\ steps < MaxSteps
    /\ LET r == ReadResult(Cursor, length)
       IN  /\ fdpos' = IF platform = "linux" THEN r.offset ELSE fdpos
           /\ offset' = IF platform = "linux" THEN offset ELSE r.offset
           /\ last' = [NoCall EXCEPT !.op = "Read", !.status = r.status,
                          !.arg = length, !.pre = Cursor, !.data = r.data,
                          !.reads = r.reads, !.iters = r.iters]
    /\ steps' = steps + 1
    /\ UNCHANGED <<env, hstate, pathspec, runs, size>>

Read(length) == ReadCall(length) /\ UNCHANGED <<c0, reqs, acc, twin, prev>>

(***************************************************************************)
(* _PartialRead(length) called on the handle as it is: one classification  *)
(* of the cursor and at most one device read.  The method returns bytes    *)
(* and leaves the cursor to its caller; when the scan falls through, it    *)
(* returns None, recorded as no bytes and no device read.                  *)
(***************************************************************************)
PartialRead(length) ==
    /\ hstate = "open"
    /\ platform \in {"windows", "osx"}
    /\ LET p      == IF platform = "windows"
                     THEN WindowsPartialRead(runs, offset, length)
                     ELSE OSXPartialRead(runs, offset, length)
           raised == p.kind = "dev" /\ DeviceRaises(offset, p.n)
       IN  last' = [NoCall EXCEPT
                       !.op = "_PartialRead",
                       !.status = IF raised THEN "IOError" ELSE "ok",
                       !.arg = length, !.pre = offset,
                       !.data = IF raised THEN <<>>
                                ELSE PartialData(p, dev_end, offset),
                       !.reads = IF p.kind = "dev" THEN <<<<offset, p.n>>>>
                                 ELSE <<>>,
                       !.iters = 0]
    /\ UNCHANGED <<env, hstate, pathspec, runs, size, offset, fdpos, steps,
                   c0, reqs, acc, twin, prev>>

\* a Read of the recorded series: its length and its bytes join the history
SeriesRead(length) ==
    /\ ReadCall(length)
    /\ reqs' = IF last'.status = "ok" THEN Append(reqs, length) ELSE reqs
    /\ acc' = IF last'.status = "ok" THEN acc \o last'.data ELSE acc
    /\ c0' = c0
    /\ twin' = twin
    /\ prev' = prev

Next ==
    \/ \E b \in BaseFds : Open(b, "/dev/mem")
    \/ \E off \in SeekOffsets : Seek(off, 0)
    \/ \E off \in RelOffsets : Seek(off, 1)
    \/ \E off \in EndOffsets : Seek(off, 2)
    \/ Tell
    \/ \E n \in ReadLens : Read(n)

Spec == Init /\ [][Next]_vars

\* series of Reads after an absolute Seek, with their history
NextSeries ==
    \/ \E b \in BaseFds : Open(b, "/dev/mem")
    \/ \E off \in SeekOffsets : SeriesSeek(off)
    \/ \E n \in SeriesLens : SeriesRead(n)

SpecSeries == Init /\ [][NextSeries]_vars

NextDecode == \E b \in BaseFds : Open(b, "/dev/mem")

SpecDecode == InitDecode /\ [][NextDecode]_vars

(***************************************************************************)
(* The whole-file handle beside run-list handles over the same device: a   *)
(* file of S bytes, and a WindowsMemory and an OSXMemory whose map is the   *)
(* single run (0, S).  Every Seek and Read is made on all three.           *)
(***************************************************************************)
\* lengths of the file: the short ones and the 10 bytes of the scenario
WholeFileLens == (0..MaxFileLen) \cup {10}

WholeFileSeeks == {0, 1, 2, 5, 12}

WholeFileReads == {0, 1, 2, 20}

WholeFileMap == <<<<0, drv.file_len>>>>

InitWholeFile ==
    /\ platform = "linux"
    /\ base_fd_attr = None
    /\ dev_end = DevFull
    /\ dev_bad = NoBad
    /\ drv \in {[NoDrv EXCEPT !.file_len = n] : n \in WholeFileLens}
    /\ HandleInit

TwinSeek(off, whence) ==
    /\ SeekCall(off, whence)
    /\ twin' = [twin EXCEPT
                   !.woffset = VFSHandlerSeekTarget(twin.woffset, drv.file_len,
                                                    off, whence),
                   !.ooffset = VFSHandlerSeekTarget(twin.ooffset,
                                                    OSXSize(WholeFileMap),
                                                    off, whence)]
    /\ UNCHANGED <<c0, reqs, acc, prev>>

TwinRead(length) ==
    /\ ReadCall(length)
    /\ LET w == WindowsRead(WholeFileMap, drv.file_len, drv.file_len, length,
                            twin.woffset, <<>>, <<>>)
           o == OSXRead(WholeFileMap, drv.file_len, length, twin.ooffset,
                        <<>>, <<>>)
       IN  twin' = [twin EXCEPT
                       !.woffset = w.offset, !.wdata = w.data,
                       !.ooffset = o.offset, !.odata = o.data,
                       !.status = IF w.status = "ok" THEN o.status
                                  ELSE w.status]
    /\ UNCHANGED <<c0, reqs, acc, prev>>

NextWholeFile ==
    \/ \E b \in BaseFds : Open(b, "/dev/mem")
    \/ \E off \in WholeFileSeeks : TwinSeek(off, 0)
    \/ \E off \in RelOffsets : TwinSeek(off, 1)
    \/ \E off \in EndOffsets : TwinSeek(off, 2)
    \/ \E n \in WholeFileReads : TwinRead(n)
    \/ Tell
    \/ Stat

SpecWholeFile == InitWholeFile /\ [][NextWholeFile]_vars

(***************************************************************************)
(* Run-list handles over a device one of whose offsets cannot be read.     *)
(***************************************************************************)
BadOffsets == {0, 2, 4097}

InitDevErr ==
    /\ base_fd_attr = None
    /\ dev_end = DevFull
    /\ dev_bad \in BadOffsets
    /\ \/ platform = "windows" /\ drv \in WinHandleDrvs
       \/ platform = "osx" /\ drv \in OSXHandleDrvs
    /\ HandleInit

NextDevErr ==
    \/ \E b \in BaseFds : Open(b, "/dev/mem")
    \/ \E off \in SeekOffsets : Seek(off, 0)
    \/ \E n \in ReadLens : Read(n)

SpecDevErr == InitDevErr /\ [][NextDevErr]_vars

(***************************************************************************)
(* The builders on devices that fail and on maps whose dimensions do not   *)
(* fit their contents.                                                     *)
(***************************************************************************)
InitFault ==
    /\ base_fd_attr = None
    /\ dev_end = DevFull
    /\ dev_bad = NoBad
    /\ \/ platform = "linux" /\ drv \in LinuxDrvs \cup {FaultDrv("open")}
       \/ /\ platform = "windows"
          /\ drv \in WinDecodeDrvs \cup {FaultDrv("open"), FaultDrv("ioctl")}
       \/ /\ platform = "osx"
          /\ drv \in OSXDimDrvs \cup {FaultDrv("open"), FaultDrv("ioctl")}
    /\ HandleInit

SpecFault == InitFault /\ [][NextDecode]_vars

(***************************************************************************)
(* Every call of the handle, on devices with and without a failing offset. *)
(***************************************************************************)
CallSeeks == {0, 1, 4095}

CallReads == {1, 2, 100}

InitCalls ==
    \/ /\ base_fd_attr = None
       /\ dev_end \in {1, DevFull}
       /\ dev_bad \in {2, NoBad}
       /\ \/ platform = "windows" /\ drv \in WinHandleDrvs
          \/ platform = "osx" /\ drv \in OSXHandleDrvs
       /\ HandleInit
    \/ /\ platform = "linux"
       /\ base_fd_attr = None
       /\ dev_end = DevFull
       /\ dev_bad = NoBad
       /\ drv \in LinuxDrvs
       /\ HandleInit

NextCalls ==
    \/ \E b \in BaseFds : Open(b, "/dev/mem")
    \/ \E off \in CallSeeks : Seek(off, 0)
    \/ \E n \in CallReads : Read(n)
    \/ Tell
    \/ Stat
    \/ IsDirectory

SpecCalls == InitCalls /\ [][NextCalls]_vars

(***************************************************************************)
(* Single partial reads at every cursor, on maps of every shape, on a      *)
(* device that may end early or fail.                                      *)
(***************************************************************************)
PartialSeeks == {0, 1, 2, 150, 4095, 4096}

PartialLens == {0, 1, 2, 5000}

InitPartial ==
    /\ base_fd_attr = None
    /\ dev_end \in {1, DevFull}
    /\ dev_bad \in {2, NoBad}
    /\ \/ platform = "windows" /\ drv \in WinHandleDrvs
       \/ platform = "osx" /\ drv \in OSXHandleDrvs
    /\ HandleInit

NextPartial ==
    \/ \E b \in BaseFds : Open(b, "/dev/mem")
    \/ \E off \in PartialSeeks : Seek(off, 0)
    \/ \E n \in PartialLens : PartialRead(n)

SpecPartial == InitPartial /\ [][NextPartial]_vars

(***************************************************************************)
(* The two read paths side by side: a WindowsMemory opened on a run array  *)
(* of whole pages, and an OSXMemory opened on the EFI memory map that      *)
(* describes the same ranges, given the same Seeks and Reads on the same   *)
(* device.                                                                 *)
(***************************************************************************)
PathDrvs ==
    {WinDrv(Len(a), a) :
        a \in SeqsUpTo({0, page_size, 2 * page_size} \X {page_size},
                       MaxHandleRuns)}

\* the EFI descriptors of conventional memory for the ranges of a run array
PageDescs(arr) ==
    [i \in 1..Len(arr) |-> <<7, arr[i][1], arr[i][2] \div page_size>>]

PathSeeks == {0, 4095, 4096, 8191, 8192, 12288}

PathReads == {0, 1, 2, 3}

InitPaths ==
    /\ platform = "windows"
    /\ base_fd_attr = None
    /\ dev_end \in {1, DevFull}
    /\ dev_bad \in {4096, NoBad}
    /\ drv \in PathDrvs
    /\ HandleInit

PathOpen(base_fd, component) ==
    /\ OpenCall(base_fd, component)
    /\ LET d == OSXDrv(PageDescs(drv.arr), 48, <<>>)
           r == ParseBinaryMemoryMap(d.mmap, d.mmap_size, d.mmap_desc_size)
       IN  twin' = [NoTwin EXCEPT !.oruns = r.runs, !.ostatus = r.status]

PathSeek(off, whence) ==
    /\ SeekCall(off, whence)
    /\ twin' = [twin EXCEPT
                   !.ooffset = VFSHandlerSeekTarget(twin.ooffset, 0, off,
                                                    whence)]
    /\ UNCHANGED <<c0, reqs, acc, prev>>

PathRead(length) ==
    /\ ReadCall(length)
    /\ LET o == OSXRead(twin.oruns, dev_end, length, twin.ooffset, <<>>, <<>>)
       IN  twin' = [twin EXCEPT !.ooffset = o.offset, !.odata = o.data,
                                !.oreads = o.reads, !.ostatus = o.status]
    /\ UNCHANGED <<c0, reqs, acc, prev>>

NextPaths ==
    \/ \E b \in BaseFds : PathOpen(b, "/dev/mem")
    \/ \E off \in PathSeeks : PathSeek(off, 0)
    \/ \E off \in RelOffsets : PathSeek(off, 1)
    \/ \E n \in PathReads : PathRead(n)

SpecPaths == InitPaths /\ [][NextPaths]_vars

(***************************************************************************)
(* Two successive opens between which the driver's report changes.         *)
(***************************************************************************)
ReopenDrvs ==
    IF platform = "linux" THEN LinuxDrvs \cup {FaultDrv("open")}
    ELSE IF platform = "windows"
    THEN {WinDrv(Len(a), a) :
             a \in SeqsUpTo({0, 2} \X {0, 1}, 2)}
         \cup {FaultDrv("ioctl")}
    ELSE {OSXDrv(d, 48, <<>>) :
             d \in SeqsUpTo({0, 7} \X {0, page_size} \X {1}, 2)}
         \cup {FaultDrv("ioctl")}

InitReopen ==
    /\ base_fd_attr = None
    /\ dev_end = DevFull
    /\ dev_bad = NoBad
    /\ platform \in {"linux", "windows", "osx"}
    /\ drv \in ReopenDrvs
    /\ HandleInit

NextReopen ==
    \/ \E b \in BaseFds : Open(b, "/dev/mem")
    \/ \E b \in BaseFds, d \in ReopenDrvs : Reopen(b, "/dev/mem", d)

SpecReopen == InitReopen /\ [][NextReopen]_vars

\* a handle opened on any driver output and any pathspec, then asked for its
\* Stat
NextStat ==
    \/ \E b \in BaseFds, p \in Pathspecs : Open(b, p)
    \/ Stat

SpecStat == InitDecode /\ [][NextStat]_vars


(***************************************************************************)
(* Vocabulary of the properties.                                           *)
(***************************************************************************)
RunList == platform \in {"windows", "osx"}

\* a region map of the data model: positive lengths, ascending, disjoint
WellFormed(rs) ==
    \A i \in 1..Len(rs) :
        /\ rs[i][2] > 0
        /\ i < Len(rs) => rs[i][1] + rs[i][2] <= rs[i + 1][1]

InRun(rs, o) == \E i \in 1..Len(rs) : rs[i][1] <= o /\ o < rs[i][1] + rs[i][2]

\* total_size of the data model: the end of the last run, 0 if there is none
TotalSize(rs) == IF rs = <<>> THEN 0 ELSE rs[Len(rs)][1] + rs[Len(rs)][2]

RECURSIVE Sum(_)
Sum(ns) == IF ns = <<>> THEN 0 ELSE Head(ns) + Sum(Tail(ns))

ReadDone == hstate = "open" /\ last.op = "Read"

ReadReturned == ReadDone /\ last.status = "ok"

(***************************************************************************)
(* C1: on a Windows or OSX handle every device read a Read issues starts   *)
(* inside a run of the region map and ends no later than that run's end;   *)
(* no device read is issued at an offset in a gap.                         *)
(***************************************************************************)
C1_DeviceReadsInsideRuns ==
    (ReadDone /\ RunList) =>
        \A k \in 1..Len(last.reads) :
            \E i \in 1..Len(runs) :
                /\ runs[i][1] <= last.reads[k][1]
                /\ last.reads[k][1] < runs[i][1] + runs[i][2]
                /\ last.reads[k][1] + last.reads[k][2] <= runs[i][1] + runs[i][2]

\* a Read that crossed a gap and then read the device up to the end of a run
C1_Witness ==
    /\ ReadReturned /\ RunList
    /\ Len(last.reads) >= 1
    /\ \E i \in 1..Len(last.data) : last.data[i] = 0
    /\ last.arg > Len(last.data)

(***************************************************************************)
(* C2: for a region map with ascending non-overlapping runs and a device   *)
(* that returns all bytes asked for, byte i of the result of Read(n) at    *)
(* cursor c is the device byte at c+i when c+i lies inside a run and zero  *)
(* when it lies in a gap.                                                  *)
(***************************************************************************)
C2_BytesFollowTheMap ==
    (ReadReturned /\ RunList /\ WellFormed(runs) /\ dev_end = DevFull) =>
        \A i \in 1..Len(last.data) :
            last.data[i] = IF InRun(runs, last.pre + i - 1)
                           THEN DevByte(last.pre + i - 1)
                           ELSE 0

\* a Read that starts in a gap and ends inside the following run
C2_Witness ==
    /\ ReadReturned /\ RunList /\ WellFormed(runs) /\ dev_end = DevFull
    /\ Len(last.data) >= 2
    /\ ~InRun(runs, last.pre)
    /\ last.data[1] = 0
    /\ InRun(runs, last.pre + Len(last.data) - 1)
    /\ last.data[Len(last.data)] # 0

(***************************************************************************)
(* C3: for any region map and any offset and length, Read after            *)
(* Seek(offset) returns exactly length bytes unless offset + length >      *)
(* total_size, and then exactly max(0, total_size - offset) bytes.         *)
(* Stated for the maps of the data model and a device that returns all     *)
(* bytes asked for.                                                        *)
(***************************************************************************)
C3_ReadLength ==
    (ReadDone /\ RunList /\ WellFormed(runs) /\ dev_end = DevFull) =>
        /\ last.status = "ok"
        /\ Len(last.data) =
              IF last.pre + last.arg > TotalSize(runs)
              THEN Max(0, TotalSize(runs) - last.pre)
              ELSE last.arg

(***************************************************************************)
(* C4: chunked reads are one large read: for a region map of the data      *)
(* model, the Reads issued since the last Seek, of lengths n1..nk, have    *)
(* returned together the bytes one Read(n1+..+nk) returns from the cursor  *)
(* the Seek set, and left the cursor where that Read leaves it.            *)
(***************************************************************************)
C4_ChunkedReadsAgree ==
    (hstate = "open" /\ RunList /\ WellFormed(runs) /\ reqs # <<>>) =>
        LET whole == ReadResult(c0, Sum(reqs))
        IN  /\ whole.status = "ok"
            /\ acc = whole.data
            /\ Cursor = whole.offset

\* two Reads, the first ending inside a gap, the second reaching a run
C4_Witness ==
    /\ hstate = "open" /\ RunList /\ WellFormed(runs)
    /\ Len(reqs) = 2 /\ reqs[1] > 0 /\ reqs[2] > 0
    /\ Len(acc) = reqs[1] + reqs[2]
    /\ ~InRun(runs, c0 + reqs[1] - 1)
    /\ ~InRun(runs, c0 + reqs[1])
    /\ InRun(runs, Cursor - 1)


C6_Scenario ==
    (/\ ReadDone /\ runs = ScenarioRuns /\ dev_end = DevFull
     /\ last.pre = 50 /\ last.arg = 100) =>
        /\ last.status = "ok"
        /\ last.data = [i \in 1..100 |-> IF i <= 50 THEN DevByte(49 + i) ELSE 0]
        /\ last.reads = <<<<50, 50>>>>
        /\ Cursor = 150

C6_Witness ==
    /\ ReadReturned /\ runs = ScenarioRuns /\ dev_end = DevFull
    /\ last.pre = 50 /\ last.arg = 100 /\ Len(last.data) = 100

(***************************************************************************)
(* C7: opening a memory handler with a non-null base handle raises IOError *)
(* and returns no handle.                                                  *)
(***************************************************************************)
C7_NonNullBaseRejected ==
    (last.op = "Open" /\ last.base # None) =>
        /\ last.status = "IOError"
        /\ hstate # "open"


(***************************************************************************)
(* Vocabulary of the builder properties: what the driver reported.         *)
(***************************************************************************)
OSXOpened == platform = "osx" /\ hstate = "open"

WinOpened == platform = "windows" /\ hstate = "open"

\* the descriptors of the driver's map whose type is in the set types
DescsOfTypes(types) == SelectSeq(drv.descs, LAMBDA d : d[1] \in types)

\* the run a descriptor stands for
RunOfDesc(d) == <<d[2], d[3] * 4096>>

\* the usable classes the specification lists
ListedTypes == {1, 2, 3, 4, 5, 6, 7, 9, 10, 13}

\* the classes the parser keeps: the listed ones and the maximum type (14)
KeptTypes == ListedTypes \cup {14}

(***************************************************************************)
(* C8 as claimed: typed-descriptor decoding keeps a descriptor if and only *)
(* if its type is one of the ten listed usable classes (1-7, 9, 10, 13):   *)
(* the map has one run per descriptor of a listed type and no other.       *)
(***************************************************************************)
C8_Original_ListedTypesOnly ==
    OSXOpened => Len(runs) = Len(DescsOfTypes(ListedTypes))

(***************************************************************************)
(* C8 as amended: a descriptor is kept if and only if its type is one of   *)
(* the ten listed classes or the maximum memory type (14); a descriptor of *)
(* any other type contributes no run.                                      *)
(***************************************************************************)
C8_KeptTypes ==
    OSXOpened =>
        /\ Len(runs) = Len(DescsOfTypes(KeptTypes))
        /\ (\A i \in 1..Len(drv.descs) : drv.descs[i][1] \notin KeptTypes)
              => runs = <<>>

\* a map holding a kept and a dropped descriptor, decoded to a single run
C8_Witness ==
    /\ OSXOpened
    /\ Len(drv.descs) = 2 /\ Len(runs) = 1
    /\ \E i \in 1..2 : drv.descs[i][1] \in {0, 8, 11, 12, 15}

CleanPrefixLenOf(d) ==
    CHOOSE k \in 0..Len(d.arr) :
        /\ k <= Max(d.number_of_runs, 0)
        /\ \A j \in 1..k : d.arr[j][2] # 0
        /\ \/ k = Len(d.arr)
           \/ k = Max(d.number_of_runs, 0)
           \/ d.arr[k + 1][2] = 0

CleanPrefixLen == CleanPrefixLenOf(drv)

C10_RunsArePrefix ==
    WinOpened =>
        /\ runs = SubSeq(drv.arr, 1, CleanPrefixLen)
        /\ size = TotalSize(runs)

\* a zero-length entry ends the list before the declared count is used up,
\* and a non-empty entry follows it
C10_Witness ==
    /\ WinOpened
    /\ Len(runs) >= 1
    /\ Len(runs) + 1 < drv.number_of_runs
    /\ Len(drv.arr) >= Len(runs) + 2
    /\ drv.arr[Len(runs) + 2][2] # 0


(***************************************************************************)
(* Vocabulary: the region map a handle stands for.  The whole-file handle  *)
(* stands for the single run (0, S) over its file of S bytes.              *)
(***************************************************************************)
RegionMap == IF platform = "linux" THEN <<<<0, drv.file_len>>>> ELSE runs

StatDone == hstate = "open" /\ last.op = "Stat"

(***************************************************************************)
(* C11: on every backend Stat of a successfully opened handle does not     *)
(* fail and reports st_size = total_size, the end of the last run and 0    *)
(* when no run survived decoding, together with the pathspec the handle    *)
(* was opened with.                                                        *)
(***************************************************************************)
C11_StatReportsTotalSize ==
    /\ (hstate = "open" /\ last.op = "Open") => pathspec = last.pathspec
    /\ StatDone =>
          /\ last.status = "ok"
          /\ last.ret = TotalSize(RegionMap)
          /\ last.pathspec = pathspec


(***************************************************************************)
(* C12: the whole-file handle over a file of S bytes reports size S, and   *)
(* Read(n) at cursor c returns exactly the file bytes [c, min(c+n, S)),    *)
(* with no padding: a 10-byte file read with Read(20) from cursor 0 gives  *)
(* its 10 bytes.                                                           *)
(***************************************************************************)
C12_WholeFileRead ==
    (platform = "linux" /\ hstate = "open") =>
        /\ Size = drv.file_len
        /\ StatDone => (last.status = "ok" /\ last.ret = drv.file_len)
        /\ ReadDone =>
              /\ last.status = "ok"
              /\ last.data =
                    [i \in 1..(Max(last.pre, Min(last.pre + last.arg,
                                                 drv.file_len)) - last.pre)
                       |-> DevByte(last.pre + i - 1)]
              /\ Cursor = last.pre + Len(last.data)

\* Read(20) at the start of a 10-byte file returned 10 bytes
C12_Witness ==
    /\ platform = "linux" /\ ReadReturned
    /\ drv.file_len = 10 /\ last.pre = 0 /\ last.arg = 20
    /\ Len(last.data) = 10

(***************************************************************************)
(* C13: over a device of S bytes, after every sequence of Seeks and Reads  *)
(* the whole-file handle has returned the same bytes and tells the same    *)
(* cursor as the run-list read loops of the Windows and OSX handles run    *)
(* over the map [(0, S)].                                                  *)
(***************************************************************************)
C13_UniformContract ==
    (platform = "linux" /\ hstate = "open") =>
        /\ twin.status = "ok"
        /\ Cursor = twin.woffset
        /\ Cursor = twin.ooffset
        /\ ReadDone =>
              /\ last.status = "ok"
              /\ last.data = twin.wdata
              /\ last.data = twin.odata

\* a Read that ran into the end of the file, after a Read that did not
C13_Witness ==
    /\ platform = "linux" /\ ReadReturned
    /\ steps = 2
    /\ last.pre > 0
    /\ 0 < Len(last.data) /\ Len(last.data) < last.arg
    /\ twin.wdata = last.data


(***************************************************************************)
(* C14: Read terminates: for every run list (well-formed or not), cursor,  *)
(* length and device (full, short, empty returns) the read loop makes at   *)
(* most `length` rounds: a round either ends the loop on an empty partial  *)
(* read or takes at least one byte off the remaining length.               *)
(***************************************************************************)
C14_ReadTerminates ==
    (ReadDone /\ RunList) =>
        /\ last.iters <= last.arg
        /\ last.iters <= Len(last.data) + 1
        /\ Len(last.data) <= last.arg

\* a Read of as many rounds as bytes asked for, ended by an empty device read
C14_Witness ==
    /\ ReadReturned /\ RunList
    /\ last.iters >= 2
    /\ last.iters = last.arg
    /\ Len(last.data) = last.iters - 1
    /\ Len(last.reads) = last.iters


(***************************************************************************)
(* C15: a device read error raised during a partial read aborts the Read:  *)
(* the error reaches the caller, none of the bytes accumulated by earlier  *)
(* partial reads of the call is returned, and the failed device read is    *)
(* the last one the call issues.                                           *)
(***************************************************************************)
\* the k-th device read of the last call hit the failing offset
ReadFailedAt(k) ==
    /\ last.reads[k][1] <= dev_bad
    /\ dev_bad < last.reads[k][1] + last.reads[k][2]

C15_DeviceErrorAborts ==
    (ReadDone /\ RunList /\ dev_bad # NoBad) =>
        /\ (\E k \in 1..Len(last.reads) : ReadFailedAt(k)) =>
              /\ last.status = "IOError"
              /\ last.data = <<>>
              /\ ReadFailedAt(Len(last.reads))
              /\ \A k \in 1..(Len(last.reads) - 1) : ~ReadFailedAt(k)
        /\ last.status = "IOError" =>
              \E k \in 1..Len(last.reads) : ReadFailedAt(k)

\* the device failed after two partial reads, one of them a device read, had
\* moved the cursor
C15_Witness ==
    /\ ReadDone /\ RunList
    /\ last.status = "IOError"
    /\ last.iters >= 3
    /\ Len(last.reads) >= 2
    /\ Cursor > last.pre


(***************************************************************************)
(* Vocabulary of the builder failures.                                     *)
(***************************************************************************)
OpenDone == last.op = "Open"

\* the run array holds fewer entries than the header declares
WinBufferShort == platform = "windows" /\ drv.number_of_runs > Len(drv.arr)

\* the run array ends before the declared count and before a terminator
WinBufferExhausted ==
    /\ WinBufferShort
    /\ \A j \in 1..Len(drv.arr) : drv.arr[j][2] # 0

\* one of the descriptors the dimensions announce ends beyond the buffer
OSXBufferShort ==
    /\ platform = "osx"
    /\ drv.mmap_desc_size > 0
    /\ \E x \in 0..((drv.mmap_size \div drv.mmap_desc_size) - 1) :
           x * drv.mmap_desc_size + 40 > drv.mmap_size

OpenRaised ==
    /\ hstate = "failed"
    /\ last.status # "ok"
    /\ runs = <<>> /\ size = 0 /\ pathspec = None

(***************************************************************************)
(* C16 as claimed: if the device cannot be opened, an ioctl/query fails,   *)
(* or the driver buffer is shorter than the declared run count or          *)
(* descriptor count requires, construction raises and no handle holds the  *)
(* runs decoded before the failure.                                        *)
(***************************************************************************)
C16_Original_ShortBufferRaises ==
    (OpenDone /\ (drv.fault # "none" \/ WinBufferShort \/ OSXBufferShort))
        => OpenRaised

(***************************************************************************)
(* C16 as amended: construction raises, and no handle holds the runs       *)
(* decoded so far, if the device cannot be opened, an ioctl/query fails,   *)
(* the run array ends before both the declared count and a zero-length     *)
(* terminator are reached, or a descriptor the dimensions announce ends    *)
(* beyond the buffer; a run array shorter than the declared count that     *)
(* holds a zero-length terminator is decoded up to the terminator.         *)
(***************************************************************************)
C16_BuilderFailuresFatal ==
    /\ (OpenDone /\ (drv.fault # "none" \/ WinBufferExhausted
                                         \/ OSXBufferShort))
          => OpenRaised
    /\ (OpenDone /\ drv.fault = "none" /\ WinBufferShort
                 /\ ~WinBufferExhausted)
          => (hstate = "open" /\ runs = SubSeq(drv.arr, 1, Len(runs)))

\* the run array ended after two decoded runs, one short of the declared count
C16_Witness ==
    /\ OpenDone /\ platform = "windows"
    /\ last.status = "struct.error"
    /\ Len(drv.arr) = 2 /\ drv.number_of_runs = 3
    /\ hstate = "failed" /\ runs = <<>>


(***************************************************************************)
(* C17: an inconsistent driver map is fatal at open time and never becomes *)
(* an empty map silently: when the explicit-run header declares a negative *)
(* run count, or the typed-descriptor map is smaller than one descriptor,  *)
(* or its descriptor size is 0 or smaller than the 40-byte record, open    *)
(* raises instead of returning a handle.                                   *)
(***************************************************************************)
InconsistentMap ==
    \/ platform = "windows" /\ drv.number_of_runs < 0
    \/ /\ platform = "osx"
       /\ \/ drv.mmap_desc_size = 0
          \/ drv.mmap_desc_size < EfiRangeSize
          \/ drv.mmap_size < drv.mmap_desc_size

C17_InconsistentMapRaises ==
    (OpenDone /\ drv.fault = "none" /\ InconsistentMap) => OpenRaised


(***************************************************************************)
(* C18: every run of the region map of a successfully opened handle has    *)
(* length > 0, whatever run array or descriptor array the driver reports,  *)
(* descriptors of an allowed type with page_count 0 included.              *)
(***************************************************************************)
C18_RunsNonEmpty ==
    (hstate = "open" /\ RunList) =>
        \A i \in 1..Len(runs) : runs[i][2] > 0

(***************************************************************************)
(* Vocabulary: the runs the driver reports, in the order it reports them:  *)
(* the entries of the run array up to the declared count or the            *)
(* terminator, the descriptors of a kept type.                             *)
(***************************************************************************)
DriverRuns ==
    IF platform = "windows"
    THEN SubSeq(drv.arr, 1, CleanPrefixLen)
    ELSE LET kept == DescsOfTypes(KeptTypes)
         IN  [i \in 1..Len(kept) |-> RunOfDesc(kept[i])]

\* ascending by start and pairwise non-overlapping
Ascending(rs) ==
    \A i \in 1..(Len(rs) - 1) : rs[i][1] + rs[i][2] <= rs[i + 1][1]

(***************************************************************************)
(* C19 as claimed: the region map of every successfully opened handle is   *)
(* ascending by start and pairwise non-overlapping, for every driver       *)
(* output the builders accept.                                             *)
(***************************************************************************)
C19_Original_AlwaysAscending ==
    (hstate = "open" /\ RunList) => Ascending(runs)

(***************************************************************************)
(* C19 as amended: the builders keep the driver's order and neither sort   *)
(* nor validate: the region map of an opened handle is ascending and       *)
(* non-overlapping exactly when the runs the driver reports are.           *)
(***************************************************************************)
C19_AscendingIfDriverIs ==
    (hstate = "open" /\ RunList) =>
        (Ascending(runs) <=> Ascending(DriverRuns))

\* an OSX map of two adjacent runs, reported in ascending order
C19_Witness ==
    /\ OSXOpened
    /\ Len(runs) = 2
    /\ runs[1][2] > 0 /\ runs[2][2] > 0
    /\ runs[1][1] + runs[1][2] = runs[2][1]


(***************************************************************************)
(* C20 as claimed: in every reachable state of an open handle, after any   *)
(* sequence of Seek and Read calls, the cursor lies in [0, total_size].    *)
(***************************************************************************)
C20_Original_CursorInRange ==
    hstate = "open" =>
        (0 <= Cursor /\ Cursor <= TotalSize(RegionMap))

(***************************************************************************)
(* C20 as amended: the cursor of an open handle is never negative; an      *)
(* absolute Seek puts it where it was asked to, beyond total_size too; a   *)
(* Read never moves it back, and on a region map of the data model a Read  *)
(* that starts in [0, total_size] leaves it in [0, total_size].            *)
(***************************************************************************)
C20_CursorBounds ==
    hstate = "open" =>
        /\ 0 <= Cursor
        /\ (last.op = "Seek" /\ last.whence = 0) => Cursor = last.arg
        /\ ReadDone =>
              /\ last.pre <= Cursor
              /\ (/\ platform = "linux" \/ WellFormed(runs)
                  /\ last.pre <= TotalSize(RegionMap))
                    => Cursor <= TotalSize(RegionMap)

\* a Read that crossed a gap and stopped at total_size with length left over
C20_Witness ==
    /\ ReadReturned /\ RunList /\ WellFormed(runs)
    /\ Cursor = TotalSize(runs)
    /\ Len(last.data) < last.arg
    /\ \E i \in 1..Len(last.data) : last.data[i] = 0


(***************************************************************************)
(* C21: the region map is immutable after open: no Read (failed ones       *)
(* included), Seek, Tell, Stat or IsDirectory changes the run list or the  *)
(* total size of the handle, nor closes it; only the cursor and the        *)
(* device's file position change.                                          *)
(***************************************************************************)
C21_MapImmutable ==
    [][hstate = "open" =>
          /\ hstate' = "open"
          /\ runs' = runs
          /\ size' = size
          /\ RegionMap' = RegionMap
          /\ pathspec' = pathspec]_vars

\* a Read failed after it had moved the cursor, and the map is still there
C21_Witness ==
    /\ ReadDone /\ RunList
    /\ last.status = "IOError"
    /\ Cursor > last.pre
    /\ Len(runs) = 2
    /\ runs = DriverRuns


(***************************************************************************)
(* C22: no retry inside a Read: at most one device read is issued per      *)
(* partial read, no two device reads of one call start at the same         *)
(* offset, and a device read that returns no byte or fails is the last     *)
(* device read of the call.                                                *)
(***************************************************************************)
\* the k-th device read of the last call came back empty
ReadEmptyAt(k) == last.reads[k][1] >= dev_end

C22_NoRetry ==
    (ReadDone /\ RunList) =>
        /\ Len(last.reads) <= last.iters
        /\ \A j, k \in 1..Len(last.reads) :
              j < k => last.reads[j][1] < last.reads[k][1]
        /\ \A k \in 1..Len(last.reads) :
              (ReadEmptyAt(k) \/ (dev_bad # NoBad /\ ReadFailedAt(k)))
                  => k = Len(last.reads)

\* a short device read followed by one that came back empty, which ended the
\* Read
C22_Witness ==
    /\ ReadReturned /\ RunList
    /\ Len(last.reads) = 2
    /\ ~ReadEmptyAt(1) /\ ReadEmptyAt(2)
    /\ Len(last.data) = 1 /\ last.arg > 1


(***************************************************************************)
(* Vocabulary: the runs a driver output d reports, in its order.           *)
(***************************************************************************)
DriverRunsOf(d) ==
    IF platform = "windows"
    THEN SubSeq(d.arr, 1, CleanPrefixLenOf(d))
    ELSE IF platform = "osx"
    THEN LET kept == SelectSeq(d.descs, LAMBDA e : e[1] \in KeptTypes)
         IN  [i \in 1..Len(kept) |-> RunOfDesc(kept[i])]
    ELSE <<>>

\* the size a handle built from the driver output d has
DriverSizeOf(d) ==
    IF platform = "linux" THEN d.file_len
    ELSE IF platform = "windows" THEN TotalSize(DriverRunsOf(d))
    ELSE 0

(***************************************************************************)
(* C23: the region map is built anew by every open and never reused: after *)
(* two successive opens between which the driver's report changed, the     *)
(* second handle's runs and size are those of the second report alone, and *)
(* the first handle still has the runs and size of the first report.       *)
(***************************************************************************)
C23_FreshMapPerOpen ==
    prev.alive =>
        /\ hstate = "open"
        /\ runs = DriverRunsOf(drv)
        /\ size = DriverSizeOf(drv)
        /\ prev.runs = DriverRunsOf(prev.drv)
        /\ prev.size = DriverSizeOf(prev.drv)

\* two Windows handles with different, non-empty maps
C23_Witness ==
    /\ prev.alive /\ platform = "windows"
    /\ prev.drv # drv
    /\ prev.runs # <<>> /\ runs # <<>>
    /\ prev.runs # runs
    /\ prev.size # size


(***************************************************************************)
(* Vocabulary: a _PartialRead that returned, and what it returned.         *)
(***************************************************************************)
PartialDone ==
    hstate = "open" /\ last.op = "_PartialRead" /\ last.status = "ok"

\* a block of zero bytes, no device read issued
ZeroBlock ==
    /\ last.reads = <<>>
    /\ last.data # <<>>
    /\ \A j \in 1..Len(last.data) : last.data[j] = 0

\* the bytes of the one device read issued, as the device returned them
DeviceBlock ==
    /\ Len(last.reads) = 1
    /\ last.reads[1][1] = last.pre
    /\ last.data = DeviceRead(dev_end, last.pre, last.reads[1][2])

\* the offsets the returned block covers
BlockOffsets == last.pre .. (last.pre + Len(last.data) - 1)

(***************************************************************************)
(* C24: a single partial read never crosses a run/gap boundary.  For every *)
(* cursor and length _PartialRead returns nothing, or a block of zero      *)
(* bytes of at most min(length, start - cursor) bytes for a run starting   *)
(* after the cursor, or the bytes of one device read of at most            *)
(* min(length, end - cursor) bytes inside a run that holds the cursor; the *)
(* block is never part zero fill and part device bytes.  On a well-formed  *)
(* map the zero block lies wholly in a gap and the device block wholly in  *)
(* one run.                                                                *)
(***************************************************************************)
C24_PartialReadWithinOneSegment ==
    PartialDone =>
        /\ Len(last.data) <= last.arg
        /\ \/ last.data = <<>> /\ Len(last.reads) <= 1
           \/ /\ ZeroBlock
              /\ \E i \in 1..Len(runs) :
                    /\ last.pre < runs[i][1]
                    /\ Len(last.data) <= runs[i][1] - last.pre
              /\ WellFormed(runs) =>
                    \A o \in BlockOffsets : ~InRun(runs, o)
           \/ /\ DeviceBlock
              /\ \A j \in 1..Len(last.data) : last.data[j] # 0
        /\ \A k \in 1..Len(last.reads) :
              \E i \in 1..Len(runs) :
                 /\ runs[i][1] <= last.pre
                 /\ last.pre + last.reads[k][2] <= runs[i][1] + runs[i][2]
                 /\ last.reads[k][2] <= last.arg

\* a zero block cut at the start of the next run, asked for more
C24_Witness ==
    /\ PartialDone /\ ZeroBlock /\ WellFormed(runs)
    /\ Len(last.data) < last.arg
    /\ InRun(runs, last.pre + Len(last.data))

\* a device block cut at the end of its run, with a run right behind it
C24_WitnessRun ==
    /\ PartialDone /\ DeviceBlock /\ last.data # <<>>
    /\ Len(last.data) < last.arg
    /\ Len(last.data) = last.reads[1][2]


(***************************************************************************)
(* C25: on a well-formed region map (ascending, non-overlapping, positive  *)
(* lengths), for a cursor with 0 <= cursor < total_size and a length > 0,  *)
(* _PartialRead never falls through the scan of the runs: it returns a     *)
(* non-empty block of zero bytes or issues a device read of at least one   *)
(* byte.                                                                   *)
(***************************************************************************)
C25_AlwaysClassified ==
    (/\ hstate = "open" /\ last.op = "_PartialRead"
     /\ WellFormed(runs)
     /\ 0 <= last.pre /\ last.pre < TotalSize(runs)
     /\ last.arg > 0)
    => \/ last.status = "ok" /\ ZeroBlock
       \/ /\ Len(last.reads) = 1
          /\ last.reads[1][1] = last.pre
          /\ last.reads[1][2] >= 1
          /\ InRun(runs, last.pre)

\* the cursor on the first byte of a gap between two runs
C25_Witness ==
    /\ PartialDone /\ WellFormed(runs) /\ last.arg > 0
    /\ last.pre < TotalSize(runs)
    /\ last.pre > 0 /\ InRun(runs, last.pre - 1)
    /\ ZeroBlock


(***************************************************************************)
(* Vocabulary: the number of bytes the device returned to the k-th device  *)
(* read of the last Read.                                                  *)
(***************************************************************************)
GotAt(k) == Len(DeviceRead(dev_end, last.reads[k][1], last.reads[k][2]))

ShortAt(k) == 0 < GotAt(k) /\ GotAt(k) < last.reads[k][2]

(***************************************************************************)
(* C26: a short device read is passed on as it is, without padding.  When  *)
(* the device returns k bytes, 0 < k < requested, to a device read at      *)
(* offset o inside a run, exactly those k bytes enter the result at o, the *)
(* cursor advances by k and the next partial read is issued at o + k.      *)
(* When the device returns no bytes, Read stops and returns what it had    *)
(* accumulated: fewer than min(length, total_size - cursor) bytes, with    *)
(* nothing added for the bytes the device did not return.                  *)
(***************************************************************************)
C26_ShortReadPropagated ==
    (ReadReturned /\ RunList) =>
        \A k \in 1..Len(last.reads) :
            LET o == last.reads[k][1]
            IN  /\ \A j \in 0..(GotAt(k) - 1) :
                       /\ o - last.pre + 1 + j <= Len(last.data)
                       /\ last.data[o - last.pre + 1 + j] = DevByte(o + j)
                /\ ShortAt(k) =>
                       \/ /\ k < Len(last.reads)
                          /\ last.reads[k + 1][1] = o + GotAt(k)
                       \/ /\ k = Len(last.reads)
                          /\ last.pre + Len(last.data) = o + GotAt(k)
                          /\ offset = o + GotAt(k)
                          /\ offset >= Size
                /\ GotAt(k) = 0 =>
                       /\ k = Len(last.reads)
                       /\ Len(last.data) = o - last.pre
                       /\ offset = o
                       /\ Len(last.data) < Min(last.arg, Size - last.pre)

\* a device read that came back short, then one that came back empty
C26_Witness ==
    /\ ReadReturned /\ RunList
    /\ Len(last.reads) = 2
    /\ ShortAt(1)
    /\ GotAt(2) = 0
    /\ last.data = <<DevByte(0)>>


(***************************************************************************)
(* C27: after every Read that returns normally the cursor equals its value *)
(* before the call plus the number of bytes returned, on every backend,    *)
(* for every region map and every behaviour of the device.                 *)
(***************************************************************************)
C27_CursorAdvancesByBytesReturned ==
    ReadReturned => Cursor = last.pre + Len(last.data)

\* a Read that returned fewer bytes than asked, and at least one
C27_Witness ==
    /\ ReadReturned
    /\ 0 < Len(last.data) /\ Len(last.data) < last.arg
    /\ Cursor = last.pre + Len(last.data)
    /\ last.pre > 0


(***************************************************************************)
(* Vocabulary: the WindowsMemory and the OSXMemory hold the same run list. *)
(***************************************************************************)
SameRunList ==
    /\ platform = "windows" /\ hstate = "open"
    /\ twin.oruns = runs

(***************************************************************************)
(* C28: the Windows and OSX read paths are the same algorithm: for the     *)
(* same run list, the same device contents and the same sequence of Seek   *)
(* and Read calls, WindowsMemory.Read and OSXMemory.Read return identical  *)
(* bytes, leave identical cursors and issue the same sequence of           *)
(* (offset, length) device reads.                                          *)
(***************************************************************************)
C28_SameReadPath ==
    SameRunList =>
        /\ offset = twin.ooffset
        /\ ReadDone =>
              /\ last.status = twin.ostatus
              /\ last.data = twin.odata
              /\ last.reads = twin.oreads


\* the same comparison on the run lists that hold at least one run
C28_SameReadPathNonEmpty ==
    (SameRunList /\ runs # <<>>) => C28_SameReadPath


(***************************************************************************)
(* Vocabulary: the shapes of a malformed run list.                         *)
(***************************************************************************)
HasZeroLengthRun(rs) == \E i \in 1..Len(rs) : rs[i][2] = 0

OutOfOrder(rs) == \E i \in 1..(Len(rs) - 1) : rs[i + 1][1] < rs[i][1]

Overlapping(rs) ==
    \E i, j \in 1..Len(rs) :
        /\ i # j
        /\ rs[i][1] <= rs[j][1] /\ rs[j][1] < rs[i][1] + rs[i][2]

(***************************************************************************)
(* C29: device access stays inside the reported runs even on a malformed   *)
(* map.  For every run list the builders can return, with runs out of      *)
(* address order, overlapping or of zero length, every device read that    *)
(* _PartialRead issues covers only offsets inside one run of the list.     *)
(***************************************************************************)
C29_DeviceReadInsideOneRun ==
    (hstate = "open" /\ last.op = "_PartialRead") =>
        \A k \in 1..Len(last.reads) :
            LET o == last.reads[k][1]
                n == last.reads[k][2]
            IN  /\ o = last.pre
                /\ \E i \in 1..Len(runs) :
                      \A a \in o..(o + Max(n, 1) - 1) :
                          runs[i][1] <= a /\ a < runs[i][1] + runs[i][2]

\* a device read of more than one byte on a map that is out of order, on one
\* with overlapping runs and on one with a run of length zero
C29_Witness ==
    /\ hstate = "open" /\ last.op = "_PartialRead"
    /\ Len(last.reads) = 1 /\ last.reads[1][2] >= 1
    /\ OutOfOrder(runs) \/ Overlapping(runs) \/ HasZeroLengthRun(runs)
    /\ ~WellFormed(runs)
    /\ last.arg > last.reads[1][2]


(***************************************************************************)
(* C30: for every run list the builders can return, one whose runs the     *)
(* driver reported out of address order included (total_size, the end of   *)
(* the last run, is then not the largest run end), a Read started at a     *)
(* cursor <= total_size returns at most total_size - cursor bytes, leaves  *)
(* the cursor <= total_size, and returns every offset that lies inside     *)
(* some run as the device's byte, not as zero fill.                        *)
(***************************************************************************)
C30_ReadWithinTotalSize ==
    (ReadReturned /\ RunList /\ last.pre <= TotalSize(runs)) =>
        /\ Len(last.data) <= TotalSize(runs) - last.pre
        /\ offset <= TotalSize(runs)
        /\ \A j \in 1..Len(last.data) :
              InRun(runs, last.pre + j - 1) =>
                  last.data[j] = DevByte(last.pre + j - 1)

\* the same on the run lists of the data model: ascending, disjoint, with
\* positive lengths
C30_ReadWithinTotalSizeWellFormed ==
    WellFormed(runs) => C30_ReadWithinTotalSize


(***************************************************************************)
(* Vocabulary: the last call was a Read that a device read ended with an   *)
(* exception.                                                              *)
(***************************************************************************)
ReadRaised ==
    /\ ReadDone /\ RunList
    /\ last.status = "IOError"
    /\ last.reads # <<>>

\* the offset of the partial read that failed
FailingOffset == last.reads[Len(last.reads)][1]

(***************************************************************************)
(* C31: when a device read raises during Read on the Windows or the OSX    *)
(* handler, the cursor is not put back to its value before the call: it is *)
(* left at the offset of the failing partial read, which is the cursor     *)
(* before the call plus the bytes of the partial reads that completed, and *)
(* a following Read starts from there.                                     *)
(***************************************************************************)
C31_CursorLeftAtFailure ==
    [][/\ ReadRaised' =>
             /\ offset' = FailingOffset'
             /\ offset' >= last'.pre
             /\ \A k \in 1..(Len(last'.reads) - 1) :
                   last'.reads[k][1] + last'.reads[k][2] <= offset'
       /\ (ReadRaised /\ last'.op = "Read" /\ steps' = steps + 1) =>
             last'.pre = FailingOffset]_vars

\* the device failed after partial reads had moved the cursor
C31_Witness ==
    /\ ReadRaised
    /\ offset > last.pre
    /\ offset = FailingOffset
    /\ last.iters >= 2


(***************************************************************************)
(* Vocabulary: total_size of the open handle, on every backend (the file   *)
(* length on the whole-file backend).                                      *)
(***************************************************************************)
HandleTotalSize ==
    IF platform = "linux" THEN drv.file_len ELSE TotalSize(runs)

\* a Read that is asked for nothing, or starts at or beyond total_size
NothingToRead ==
    ReadDone /\ (last.arg = 0 \/ last.pre >= HandleTotalSize)

(***************************************************************************)
(* C32: Read(0), and Read(n) at any cursor >= total_size, return the empty *)
(* byte string on every backend, leave the cursor unchanged and issue no   *)
(* device read.                                                            *)
(***************************************************************************)
C32_EmptyReadIsNoOp ==
    NothingToRead =>
        /\ last.status = "ok"
        /\ last.data = <<>>
        /\ Cursor = last.pre
        /\ last.reads = <<>>

\* the same on the run-list handles that hold at least one run
C32_EmptyReadIsNoOpRunList ==
    (RunList /\ runs # <<>>) => C32_EmptyReadIsNoOp

\* the whole-file handle returns nothing and stays where it is, through a
\* read call on the file
C32_EmptyReadWholeFile ==
    (NothingToRead /\ platform = "linux") =>
        /\ last.status = "ok"
        /\ last.data = <<>>
        /\ Cursor = last.pre
        /\ last.reads = <<<<last.pre, last.arg>>>>


(***************************************************************************)
(* C33: opening the whole-file backend measures the size by seeking to the *)
(* end and then restores the position: immediately after a successful open *)
(* size equals the file length and Tell() returns 0, so the first Read     *)
(* starts at offset 0.                                                     *)
(***************************************************************************)
C33_WholeFileOpenAtStart ==
    [][(platform = "linux" /\ hstate' = "open") =>
          /\ size' = drv.file_len
          /\ last'.op = "Open" => LinuxTell' = 0
          /\ (last.op = "Open" /\ last'.op = "Tell") => last'.ret = 0
          /\ (last.op = "Open" /\ last'.op = "Read") =>
                /\ last'.pre = 0
                /\ last'.data = DeviceRead(drv.file_len, 0, last'.arg)]_vars

\* a file that is not empty, just opened: its length measured, the position
\* back at the start
C33_Witness ==
    /\ platform = "linux" /\ hstate = "open" /\ last.op = "Open"
    /\ size = drv.file_len /\ size > 1
    /\ LinuxTell = 0


(***************************************************************************)
(* client_utils_osx.py.  A string is a sequence of one-character strings.  *)
(***************************************************************************)
\* the longest path handed to OSXGetRawDevice
MaxPathLen == 4

PathChars == {"/", "a", "b"}

Strings(n) == UNION {[1..k -> PathChars] : k \in 0..n}

\* utils.NormalizePath(path, "/"): the components of the path that are not
\* empty, each behind one separator; "/" if there is none
RECURSIVE NormalizeFrom(_, _, _)
NormalizeFrom(s, i, out) ==
    IF i > Len(s) THEN out
    ELSE IF s[i] = "/" THEN NormalizeFrom(s, i + 1, out)
    ELSE IF i = 1 \/ s[i - 1] = "/"
    THEN NormalizeFrom(s, i + 1, out \o <<"/", s[i]>>)
    ELSE NormalizeFrom(s, i + 1, Append(out, s[i]))

NormalizePath(s) ==
    LET out == NormalizeFrom(s, 1, <<>>)
    IN  IF out = <<>> THEN <<"/">> ELSE out

\* s.rfind("/") + 1: the index behind the last separator, 0 if there is none
RFindSlash(s) ==
    IF \E i \in 1..Len(s) : s[i] = "/"
    THEN CHOOSE i \in 1..Len(s) :
             s[i] = "/" /\ \A j \in (i + 1)..Len(s) : s[j] # "/"
    ELSE 0

\* s.rstrip("/")
RECURSIVE RStripSlash(_)
RStripSlash(s) ==
    IF s # <<>> /\ s[Len(s)] = "/" THEN RStripSlash(SubSeq(s, 1, Len(s) - 1))
    ELSE s

\* mutant: the parent of every directory is taken to be the root
Dirname_Root(s) == <<"/">>

\* os.path.dirname (posixpath): the head up to the last separator, without
\* its trailing separators unless it consists of separators only
Dirname(s) ==
    LET head == SubSeq(s, 1, RFindSlash(s))
    IN  IF head # <<>> /\ (\E i \in 1..Len(head) : head[i] # "/")
        THEN RStripSlash(head)
        ELSE head

\* the filesystem types OSXGetRawDevice takes as real filesystems
OSFsTypes ==
    {"ext2", "ext3", "ext4", "vfat", "ntfs", "Apple_HFS", "hfs", "msdos"}

\* the types f_fstypename can hold, among them some that are not in the list
FsTypeList ==
    <<"ext2", "ext3", "ext4", "vfat", "ntfs", "Apple_HFS", "hfs", "msdos",
      "devfs", "autofs">>

\* mount points (f_mntonname) and the devices mounted on them (f_mntfromname)
MountList ==
    << <<"/">>, <<"/", "a">>, <<"/", "a", "/", "b">>, <<"/", "b">> >>

DeviceList == <<"/dev/disk0s1", "/dev/disk1s1", "/dev/disk2s1", "devfs">>

\* GetMountpoints(): the mount points with index in on, their types taken
\* from the list of types starting behind position r
DeviceMap(on, r) ==
    [m \in {MountList[i] : i \in on} |->
        LET i == CHOOSE k \in on : MountList[k] = m
        IN  <<DeviceList[i], FsTypeList[((i + r) % Len(FsTypeList)) + 1]>>]

DeviceMaps ==
    {DeviceMap(on, r) : on \in SUBSET (1..Len(MountList)),
                        r \in 0..(Len(FsTypeList) - 1)}

(***************************************************************************)
(* OSXGetRawDevice(path).  RawDeviceEnter is the code before the loop,     *)
(* RawDeviceRound one round of the loop: the lookup of mount_point in the  *)
(* device map, and on KeyError the step to its parent directory.  round    *)
(* tells one round from the next.                                          *)
(***************************************************************************)
\* what no function of client_utils_osx.py touches
handle_vars == <<platform, base_fd_attr, drv, dev_end, dev_bad, hstate,
                 pathspec, runs, size, offset, fdpos, last, c0, reqs, acc,
                 steps, twin, prev>>

RawDeviceCalls ==
    {[fn |-> "OSXGetRawDevice", pc |-> "call", arg |-> a, device_map |-> dm,
      path |-> <<>>, mount_point |-> <<>>, result_path |-> None,
      pathtype |-> None, round |-> 0] :
        a \in Strings(MaxPathLen), dm \in DeviceMaps}

RawDeviceEnter ==
    /\ util.fn = "OSXGetRawDevice" /\ util.pc = "call"
    /\ util' = [util EXCEPT !.pc = "loop",
                            !.path = NormalizePath(util.arg),
                            !.mount_point = NormalizePath(util.arg),
                            !.pathtype = "OS"]
    /\ UNCHANGED handle_vars

RawDeviceRound ==
    /\ util.fn = "OSXGetRawDevice" /\ util.pc = "loop"
    /\ util' =
          IF util.mount_point = <<>>
          THEN [util EXCEPT !.pc = "returned None"]
          ELSE IF util.mount_point \in DOMAIN util.device_map
          THEN LET e == util.device_map[util.mount_point]
               IN  [util EXCEPT
                       !.pc = "returned",
                       !.result_path = e[1],
                       !.pathtype = IF e[2] \in OSFsTypes THEN "OS"
                                    ELSE "UNKNOWN",
                       !.path = NormalizePath(
                                    SubSeq(util.path,
                                           Len(util.mount_point) + 1,
                                           Len(util.path)))]
          ELSE [util EXCEPT !.mount_point = Dirname(util.mount_point),
                            !.round = 1 - util.round]
    /\ UNCHANGED handle_vars


(***************************************************************************)
(* GetFileSystems().  platform.mac_ver()[0] is a string such as "10.6.8";  *)
(* split(".")[0:2] gives its first two components, as strings, and the     *)
(* assignment to (major, minor) raises ValueError unless there are two.    *)
(***************************************************************************)
\* the largest minor version and patch level of the version strings
MaxMinor == 12

Digits == <<"0", "1", "2", "3", "4", "5", "6", "7", "8", "9">>

\* str(n) for 0 <= n < 100
NumStr(n) ==
    IF n < 10 THEN <<Digits[n + 1]>>
    ELSE <<Digits[(n \div 10) + 1], Digits[(n % 10) + 1]>>

\* the version string of the components ns: "10.6.8" for <<10, 6, 8>>
RECURSIVE VersionString(_)
VersionString(ns) ==
    IF ns = <<>> THEN <<>>
    ELSE IF Len(ns) = 1 THEN NumStr(ns[1])
    ELSE NumStr(ns[1]) \o <<".">> \o VersionString(Tail(ns))

\* s.split("."): the pieces of s between the dots
RECURSIVE SplitDots(_, _, _)
SplitDots(s, i, cur) ==
    IF i > Len(s) THEN <<cur>>
    ELSE IF s[i] = "." THEN <<cur>> \o SplitDots(s, i + 1, <<>>)
    ELSE SplitDots(s, i + 1, Append(cur, s[i]))

\* x[0:2]
FirstTwo(x) == SubSeq(x, 1, Min(2, Len(x)))

PyStr(v) == [type |-> "str", val |-> v]

PyInt(v) == [type |-> "int", val |-> v]

\* the character code of a digit or of the dot
CharCode(c) == IF c = "." THEN 46
               ELSE 48 + (CHOOSE d \in 0..9 : Digits[d + 1] = c)

\* two strings, character by character
RECURSIVE StrLessEq(_, _)
StrLessEq(x, y) ==
    IF x = <<>> THEN TRUE
    ELSE IF y = <<>> THEN FALSE
    ELSE IF Head(x) # Head(y) THEN CharCode(Head(x)) < CharCode(Head(y))
    ELSE StrLessEq(Tail(x), Tail(y))

\* a <= b in CPython 2: two ints by value, two strings character by
\* character; values of different types by type, a number before every
\* string
Py2LessEq(a, b) ==
    IF a.type = "int" /\ b.type = "int" THEN a.val <= b.val
    ELSE IF a.type = "int" THEN TRUE
    ELSE IF b.type = "int" THEN FALSE
    ELSE StrLessEq(a.val, b.val)

\* what GetFileSystems does on the version string ver when the getfsstat
\* call returns ret: the structure and the call it selects, and the number
\* of structures it returns
GetFileSystemsResult(ver, ret) ==
    LET parts == FirstTwo(SplitDots(ver, 1, <<>>))
    IN  IF Len(parts) # 2
        THEN [status |-> "ValueError", fs_struct |-> None, call |-> None,
              count |-> 0]
        ELSE LET major == PyStr(parts[1])
                 minor == PyStr(parts[2])
                 old   == Py2LessEq(major, PyInt(10))
                          /\ Py2LessEq(minor, PyInt(5))
             IN  [status |-> "ok",
                  fs_struct |-> IF old THEN "StatFSStruct"
                                ELSE "StatFS64Struct",
                  call |-> IF old THEN "getfsstat" ELSE "getfsstat64",
                  count |-> IF ret = 0 THEN 0 ELSE Max(ret, 0)]

\* version numbers with two or three components, a bare major version, and
\* the empty string mac_ver reports off the Mac
FileSystemsCalls ==
    {[fn |-> "GetFileSystems", pc |-> "call", version |-> v, ret |-> r,
      out |-> None] :
        v \in {<<ma, mi>> : ma \in 9..11, mi \in 0..MaxMinor}
              \cup {<<ma, mi, pa>> : ma \in 9..11, mi \in 0..MaxMinor,
                                     pa \in 0..1}
              \cup {<<10>>, <<>>},
        r \in {0, 1, 2}}

GetFileSystems ==
    /\ util.fn = "GetFileSystems" /\ util.pc = "call"
    /\ util' = [util EXCEPT
                   !.pc = "done",
                   !.out = GetFileSystemsResult(VersionString(util.version),
                                                util.ret)]
    /\ UNCHANGED handle_vars


(***************************************************************************)
(* CFStringToPystring(value): the buffer it allocates and the size it      *)
(* passes to CFStringGetCString (declared c_int32).                        *)
(***************************************************************************)
\* the longest CFString of the calls
MaxCFLen == 6

\* the sizes are Python ints; the size passed becomes a c_int32, which
\* holds every size of a string this short as it is
\* the bytes create_string_buffer allocates and the buffer size handed to
\* CFStringGetCString, for a string of n characters
CFStringSizes(n) ==
    LET length == (n * 4) + 1
    IN  [allocated |-> length, passed |-> length * 4]

CFStringCalls ==
    {[fn |-> "CFStringToPystring", pc |-> "call", length |-> n,
      out |-> None] : n \in 0..MaxCFLen}

CFStringToPystring ==
    /\ util.fn = "CFStringToPystring" /\ util.pc = "call"
    /\ util' = [util EXCEPT !.pc = "done",
                            !.out = CFStringSizes(util.length)]
    /\ UNCHANGED handle_vars

(***************************************************************************)
(* OSXFindProxies().  The inputs are what the system calls hand back: the  *)
(* settings dictionary (None for a null pointer), the values retrieved     *)
(* from it, and the step, if any, at which an exception is raised.         *)
(***************************************************************************)
\* a null pointer, and the address of an object of Core Foundation
NullPtr == 0

CFPtr == 4096

RaisePoints == {"none", "retrieve_http", "decode_proxy", "retrieve_auto",
                "decode_url"}

\* the body of the try statement: how it is left
TryBody(i) ==
    IF i.raise_at = "retrieve_http" THEN "raised"
    ELSE IF i.cf_http_enabled # NullPtr /\ i.http_enabled # 0
            /\ i.cfproxy # NullPtr /\ i.cfport # NullPtr
    THEN IF i.raise_at = "decode_proxy" THEN "raised" ELSE "return http"
    ELSE IF i.raise_at = "retrieve_auto" THEN "raised"
    ELSE IF i.cf_auto_enabled # NullPtr /\ i.auto_enabled # 0
            /\ i.cfurl # NullPtr
    THEN IF i.raise_at = "decode_url" THEN "raised"
         ELSE "return PROXY_SERVERS (auto-config)"
    ELSE "fall through"

\* mutant: CFRelease after the try statement, without finally
FindProxiesResult_NoFinally(i) ==
    IF i.settings = NullPtr
    THEN [outcome |-> "return []", released |-> <<>>]
    ELSE LET how == TryBody(i)
         IN  [outcome |-> IF how = "fall through"
                          THEN "return PROXY_SERVERS" ELSE how,
              released |-> IF how = "fall through" THEN <<i.settings>>
                           ELSE <<>>]

\* the outcome of OSXFindProxies and the pointers it passed to CFRelease,
\* in order: the finally clause runs however the try statement is left
FindProxiesResult(i) ==
    IF i.settings = NullPtr
    THEN [outcome |-> "return []", released |-> <<>>]
    ELSE LET how == TryBody(i)
         IN  [outcome |-> IF how = "fall through"
                          THEN "return PROXY_SERVERS" ELSE how,
              released |-> <<i.settings>>]

FindProxiesCalls ==
    {[fn |-> "OSXFindProxies", pc |-> "call",
      inp |-> [settings |-> st, cf_http_enabled |-> he[1],
               http_enabled |-> he[2], cfproxy |-> px, cfport |-> po,
               cf_auto_enabled |-> ae[1], auto_enabled |-> ae[2],
               cfurl |-> ur, raise_at |-> ra],
      out |-> None] :
        st \in {NullPtr, CFPtr},
        he \in {<<NullPtr, 0>>, <<CFPtr, 0>>, <<CFPtr, 1>>},
        px \in {NullPtr, CFPtr}, po \in {NullPtr, CFPtr},
        ae \in {<<NullPtr, 0>>, <<CFPtr, 0>>, <<CFPtr, 1>>},
        ur \in {NullPtr, CFPtr}, ra \in RaisePoints}

OSXFindProxies ==
    /\ util.fn = "OSXFindProxies" /\ util.pc = "call"
    /\ util' = [util EXCEPT !.pc = "done",
                            !.out = FindProxiesResult(util.inp)]
    /\ UNCHANGED handle_vars

(***************************************************************************)
(* The functions of client_utils_osx.py, each called once on one of its    *)
(* inputs.                                                                 *)
(***************************************************************************)
InitOSXUtils ==
    /\ platform = "osx"
    /\ base_fd_attr = None
    /\ drv = NoDrv
    /\ dev_end = DevFull
    /\ dev_bad = NoBad
    /\ HandleClosed
    /\ util \in RawDeviceCalls \cup FileSystemsCalls \cup CFStringCalls
                \cup FindProxiesCalls

NextOSXUtils ==
    \/ RawDeviceEnter
    \/ RawDeviceRound
    \/ GetFileSystems
    \/ CFStringToPystring
    \/ OSXFindProxies

SpecOSXUtils == InitOSXUtils /\ [][NextOSXUtils]_vars

\* the interpreter keeps running the function it is in
SpecOSXUtilsFair ==
    /\ InitOSXUtils
    /\ [][NextOSXUtils]_vars
    /\ WF_vars(NextOSXUtils)


(***************************************************************************)
(* Vocabulary of the claims about OSXGetRawDevice.                         *)
(***************************************************************************)
\* a normalized path: absolute, no empty component, no trailing separator
IsNormalized(p) ==
    /\ p # <<>>
    /\ p[1] = "/"
    /\ \A k \in 1..(Len(p) - 1) : ~(p[k] = "/" /\ p[k + 1] = "/")
    /\ Len(p) > 1 => p[Len(p)] # "/"

\* directory m is the path p or one of its ancestors
IsAncestorOrSelf(m, p) ==
    \/ m = p
    \/ m = <<"/">>
    \/ /\ Len(m) < Len(p)
       /\ SubSeq(p, 1, Len(m)) = m
       /\ p[Len(m) + 1] = "/"

MountedAncestors(dm, p) ==
    {m \in DOMAIN dm : IsNormalized(m) /\ IsAncestorOrSelf(m, p)}

LongestMountedAncestor(dm, p) ==
    CHOOSE m \in MountedAncestors(dm, p) :
        \A o \in MountedAncestors(dm, p) : Len(o) <= Len(m)

\* the path p below the mount point m, as an absolute path
BelowMount(m, p) ==
    IF m = <<"/">> THEN p
    ELSE IF m = p THEN <<"/">>
    ELSE SubSeq(p, Len(m) + 1, Len(p))

RawDeviceReturned ==
    util.fn = "OSXGetRawDevice" /\ util.pc = "returned"

\* C34: when OSXGetRawDevice returns a result for a normalized path, the
\* device is that of the longest mounted ancestor directory of the path,
\* the remaining path is the path with that mount point removed, and the
\* pathtype is OS for the eight listed filesystem types and UNKNOWN for
\* every other.
C34_MostSpecificMountPoint ==
    (RawDeviceReturned /\ IsNormalized(util.arg)) =>
        /\ MountedAncestors(util.device_map, util.arg) # {}
        /\ LET m == LongestMountedAncestor(util.device_map, util.arg)
           IN  /\ util.mount_point = m
               /\ util.result_path = util.device_map[m][1]
               /\ util.path = BelowMount(m, util.arg)
               /\ util.pathtype =
                      IF util.device_map[m][2] \in
                             {"ext2", "ext3", "ext4", "vfat", "ntfs",
                              "Apple_HFS", "hfs", "msdos"}
                      THEN "OS" ELSE "UNKNOWN"

\* "/a/b" with "/" and "/a" mounted, "/a" on a filesystem that is not listed
C34_Witness ==
    /\ RawDeviceReturned
    /\ util.arg = <<"/", "a", "/", "b">>
    /\ <<"/">> \in DOMAIN util.device_map
    /\ util.mount_point = <<"/", "a">>
    /\ util.path = <<"/", "b">>
    /\ util.pathtype = "UNKNOWN"


\* the call of OSXGetRawDevice has ended, with a result or without one
RawDeviceEnded ==
    util.fn = "OSXGetRawDevice" => util.pc \in {"returned", "returned None"}

\* C35: every call of OSXGetRawDevice ends, whatever the path and the mount
\* table: the walk from the path up through its parent directories reaches
\* a result or an error.
C35_RawDeviceTerminates == <>RawDeviceEnded


(***************************************************************************)
(* Vocabulary of the claim about GetFileSystems.                           *)
(***************************************************************************)
GetFileSystemsDone == util.fn = "GetFileSystems" /\ util.pc = "done"

\* the version with the components v is 10.5 or an earlier one
IsTenFiveOrEarlier(v) ==
    LET major == IF Len(v) >= 1 THEN v[1] ELSE 0
        minor == IF Len(v) >= 2 THEN v[2] ELSE 0
    IN  major < 10 \/ (major = 10 /\ minor <= 5)

\* C36: for every version string, GetFileSystems selects StatFSStruct and
\* getfsstat when the version is 10.5 or earlier, and StatFS64Struct and
\* getfsstat64 when it is later.
C36_StructByVersion ==
    GetFileSystemsDone =>
        /\ util.out.status = "ok"
        /\ IF IsTenFiveOrEarlier(util.version)
           THEN util.out.fs_struct = "StatFSStruct"
                /\ util.out.call = "getfsstat"
           ELSE util.out.fs_struct = "StatFS64Struct"
                /\ util.out.call = "getfsstat64"

\* what the code does instead: whenever the version has two components it
\* selects the 64-bit structure and call
GetFileSystemsAlways64 ==
    (GetFileSystemsDone /\ util.out.status = "ok") =>
        util.out.fs_struct = "StatFS64Struct" /\ util.out.call = "getfsstat64"

\* on the versions after 10.5 the selection is the one claimed
C36_StructByVersionLater ==
    (GetFileSystemsDone /\ Len(util.version) >= 2
         /\ ~IsTenFiveOrEarlier(util.version)) =>
        /\ util.out.status = "ok"
        /\ util.out.fs_struct = "StatFS64Struct"
        /\ util.out.call = "getfsstat64"


(***************************************************************************)
(* Vocabulary of the claim about CFStringToPystring.                       *)
(***************************************************************************)
CFStringDone == util.fn = "CFStringToPystring" /\ util.pc = "done"

\* C37: for every string length, the buffer size CFStringToPystring passes
\* to CFStringGetCString is at most the size of the buffer it allocated,
\* length * 4 + 1 bytes.
C37_PassedSizeWithinBuffer ==
    CFStringDone =>
        /\ util.out.allocated = (util.length * 4) + 1
        /\ util.out.passed <= util.out.allocated

\* what the code does instead: it passes four times the size it allocated
CFStringPassesFourTimes ==
    CFStringDone => util.out.passed = 4 * util.out.allocated


(***************************************************************************)
(* Vocabulary of the claim about OSXFindProxies.                           *)
(***************************************************************************)
FindProxiesDone == util.fn = "OSXFindProxies" /\ util.pc = "done"

\* C38: when SCDynamicStoreCopyProxies returned a dictionary, OSXFindProxies
\* calls CFRelease on it exactly once, however it ends (HTTP proxy,
\* auto-config, fall-through or an exception); when it returned null,
\* CFRelease is never called.
C38_SettingsReleasedOnce ==
    FindProxiesDone =>
        IF util.inp.settings # NullPtr
        THEN util.out.released = <<util.inp.settings>>
        ELSE util.out.released = <<>> /\ util.out.outcome = "return []"

\* an exception while the proxy host is decoded, the dictionary released
C38_Witness ==
    /\ FindProxiesDone
    /\ util.inp.settings # NullPtr
    /\ util.inp.raise_at = "decode_proxy"
    /\ util.out.outcome = "raised"
    /\ util.out.released = <<util.inp.settings>>

====
